---------------------------- MODULE Spec2Model ----------------------------
(***************************************************************************)
(* Model of the webhook handler of api/bot.js (the handler that starts at *)
(* src/api/bot.js:600 with its helpers getAllTokens, callClaudeWithRotation*)
(* and performTavilyResearch), and of the JSON intent router of an        *)
(* alternative revision (src/unnamed/part_006, analyzeUserIntent).        *)
(*                                                                         *)
(* Strings are modelled as sequences of runs [w |-> word, n |-> count]:    *)
(* the word w repeated n times.  A word names a literal fragment of text   *)
(* and has a fixed width in characters (Width).  "x" is an ordinary        *)
(* character, "u" a character of a user's chat text, "NL" a line break,      *)
(* "FENCE" a code-fence marker (three backquotes) and "!! Error: " the      *)
(* prefix of the error reply (a warning sign, " Error: ").                 *)
(***************************************************************************)
EXTENDS Integers, Sequences, FiniteSets, TLC

(***************************************************************************)
(* Strings                                                                 *)
(***************************************************************************)

\* Number of characters of a word (String.prototype.length of the literal).
Width(w) ==
    CASE w = "SEARCH:" -> 7
      [] w = "search:" -> 7
      [] w = "quota" -> 5
      [] w = "QUOTA" -> 5
      [] w = "usage limit" -> 11
      [] w = "You have reached your " -> 22
      [] w = "Markdown" -> 8
      [] w = "markdown" -> 8
      [] w = "ey" -> 2
      [] w = "/clear" -> 6
      [] w = "/cleartokens" -> 12
      [] w = "/s " -> 3
      [] w = "/use" -> 4
      [] w = "/reset" -> 6
      [] w = "gpt-4o" -> 6
      [] w = "**" -> 2
      [] w = "---" -> 3
      [] w = "null" -> 4
      [] w = "{json}" -> 6
      [] w = "FENCEjson" -> 7
      [] w = "FENCE" -> 3
      [] w = "{\"action\":\"SEARCH\",\"query\":\"q\"}" -> 31
      [] w = "{\"action\":\"DIRECT\"}" -> 19
      [] w = "{\"other\":1}" -> 11
      [] w = "42" -> 2
      [] w = "Empty response" -> 14
      [] w = "Quota exceeded: " -> 16
      [] w = "All tokens failed. Last error: " -> 31
      [] w = "No PUTER_AUTH_TOKEN found in Env or DB." -> 39
      [] w = "history.push is not a function" -> 30
      [] w = "history.slice is not a function" -> 31
      [] w = "Cannot read properties of null (reading 'action')" -> 49
      [] w = "kv: request failed" -> 18
      [] w = "currentExtras.includes is not a function" -> 40
      [] w = "Failed to save token: " -> 24
      [] w = "ETELEGRAM: 400 Bad Request" -> 26
      [] w = "!! Error: " -> 10
      [] w = "NLNL:::SEARCH_CONTEXT:::NLQuery: " -> 30
      [] w = "NL:::END_SEARCH_CONTEXT:::" -> 25
      [] w = "Tavily AI Summary: " -> 19
      [] w = "Exa Search Summary:NLNL" -> 21
      [] w = "NLNLDetails:NL" -> 11
      [] OTHER -> 1

\* One run of a string.
Run(w, n) == [w |-> w, n |-> n]

\* A string made of one word.
Str(w) == << Run(w, 1) >>

RECURSIVE StrLen(_)
\* text.length
StrLen(t) ==
    IF t = << >> THEN 0
    ELSE Width(t[1].w) * t[1].n + StrLen(Tail(t))

\* a + b (runs of the same word at the seam are merged, so that equal
\* strings have equal representations).
StrCat(a, b) ==
    IF a = << >> THEN b
    ELSE IF b = << >> THEN a
    ELSE IF a[Len(a)].w = b[1].w
         THEN SubSeq(a, 1, Len(a) - 1)
              \o << Run(b[1].w, a[Len(a)].n + b[1].n) >>
              \o Tail(b)
         ELSE a \o b

\* White space in the sense of String.prototype.trim.
IsSpaceWord(w) == w \in {" ", "NL"}

RECURSIVE TrimStart(_)
TrimStart(t) ==
    IF t = << >> THEN t
    ELSE IF IsSpaceWord(t[1].w) THEN TrimStart(Tail(t))
    ELSE t

RECURSIVE TrimEnd(_)
TrimEnd(t) ==
    IF t = << >> THEN t
    ELSE IF IsSpaceWord(t[Len(t)].w) THEN TrimEnd(SubSeq(t, 1, Len(t) - 1))
    ELSE t

\* text.trim()
StrTrim(t) == TrimEnd(TrimStart(t))

\* Lower-case form of a word.
LowerWord(w) ==
    CASE w = "QUOTA" -> "quota"
      [] w = "SEARCH:" -> "search:"
      [] w = "Markdown" -> "markdown"
      [] OTHER -> w

\* text.toLowerCase()
ToLowerCase(t) == [i \in 1..Len(t) |-> Run(LowerWord(t[i].w), t[i].n)]

\* text.includes(p) for a literal p that is a word of the model (the words
\* are chosen so that p does not occur across or inside other words).
Includes(t, p) == \E i \in 1..Len(t) : t[i].w = p /\ t[i].n > 0

\* text.startsWith(p) for a literal p that is a word of the model.
StartsWith(t, p) == t # << >> /\ t[1].w = p

\* text.replace(p, "") : removes the first occurrence of the word p.
RECURSIVE ReplaceFirst(_, _)
ReplaceFirst(t, p) ==
    IF t = << >> THEN t
    ELSE IF t[1].w = p
         THEN IF t[1].n > 1 THEN << Run(p, t[1].n - 1) >> \o Tail(t)
              ELSE Tail(t)
    ELSE StrCat(<< t[1] >>, ReplaceFirst(Tail(t), p))

RECURSIVE StrTake(_, _)
\* The first k characters of t.  A word that is cut through leaves
\* ordinary characters ("x"): a fragment of a word is not that word.
StrTake(t, k) ==
    IF k <= 0 \/ t = << >> THEN << >>
    ELSE LET w == Width(t[1].w)
             full == w * t[1].n
         IN IF full <= k THEN StrCat(<< t[1] >>, StrTake(Tail(t), k - full))
            ELSE LET whole == k \div w
                     rest == k - whole * w
                 IN StrCat(IF whole > 0 THEN << Run(t[1].w, whole) >> ELSE << >>,
                           IF rest > 0 THEN << Run("x", rest) >> ELSE << >>)

RECURSIVE StrDrop(_, _)
\* t without its first k characters.
StrDrop(t, k) ==
    IF k <= 0 \/ t = << >> THEN t
    ELSE LET w == Width(t[1].w)
             full == w * t[1].n
         IN IF full <= k THEN StrDrop(Tail(t), k - full)
            ELSE LET whole == k \div w
                     rest == k - whole * w
                     left == t[1].n - whole
                 IN IF rest = 0 THEN << Run(t[1].w, left) >> \o Tail(t)
                    ELSE StrCat(<< Run("x", w - rest) >>,
                                IF left > 1
                                THEN << Run(t[1].w, left - 1) >> \o Tail(t)
                                ELSE Tail(t))

\* text.substring(i, j) for 0 <= i <= j.
Substring(t, i, j) == StrTake(StrDrop(t, i), j - i)


(***************************************************************************)
(* Configuration (process.env) and the completion provider's payloads      *)
(***************************************************************************)

\* A credential: a JWT-like text "ey" followed by 60 characters of one letter.
Tok(letter) == << Run("ey", 1), Run(letter, 60) >>

\* process.env.PUTER_AUTH_TOKEN after split(','), trim and filter.
StaticTokens == << Tok("S") >>

\* Largest number of entries of the persisted list 'extra_tokens'.
MaxDyn == 2

\* The order in which credentials were registered; the second entry repeats
\* the static credential (the add handler only looks at the dynamic list).
DynOrder == << Tok("A"), Tok("S"), Tok("B"), Tok("C") >>

\* Values of the key 'extra_tokens' left by earlier registrations.
DynLists == { SubSeq(DynOrder, 1, k) : k \in 0..MaxDyn }

DEFAULT_MODEL == "claude-opus-4-5"

\* Result of puter.ai.chat for one credential.
\*   t = "throw"  : the call rejects with an error whose message is emsg
\*   t = "null"   : null or undefined
\*   t = "string" : a bare string (content)
\*   t = "message": an object with message.content; ctype tells whether the
\*                  content is a string (content), an array (blocks) or
\*                  another object
\*   t = "array"  : the payload is an array of blocks
\*   t = "object" : any other object
\* error: the object has a truthy 'error' field.  json: JSON.stringify.
Payload(t, error, ctype, content, blocks, json, emsg) ==
    [t |-> t, error |-> error, ctype |-> ctype, content |-> content,
     blocks |-> blocks, json |-> json, emsg |-> emsg]

Block(type, text) == [type |-> type, text |-> text]

Thrown(emsg) == Payload("throw", FALSE, "none", << >>, << >>, << >>, emsg)
NullPayload == Payload("null", FALSE, "none", << >>, << >>, << >>, << >>)
Bare(text) == Payload("string", FALSE, "none", text, << >>, << >>, << >>)
Msg(text) == Payload("message", FALSE, "string", text, << >>, Str("{json}"), << >>)
MsgBlocks(blocks) ==
    Payload("message", FALSE, "array", << >>, blocks, Str("{json}"), << >>)
ArrayPayload(blocks) ==
    Payload("array", FALSE, "none", << >>, blocks, Str("[json]"), << >>)
ErrorObject(json) == Payload("object", TRUE, "none", << >>, << >>, json, << >>)
OtherObject(json) == Payload("object", FALSE, "none", << >>, << >>, json, << >>)

RECURSIVE JoinTexts(_)
\* blocks.map(b => b.text || '').join('')
JoinTexts(blocks) ==
    IF blocks = << >> THEN << >>
    ELSE StrCat(blocks[1].text, JoinTexts(Tail(blocks)))

\* blocks.filter(b => b.type === 'text' || b.text)
FilterTextual(blocks) ==
    SelectSeq(blocks, LAMBDA b : b.type = "text" \/ b.text # << >>)

\* !result
IsFalsy(result) ==
    \/ result.t = "null"
    \/ result.t = "string" /\ result.content = << >>

\* result?.message?.content is truthy
HasContent(result) ==
    /\ result.t = "message"
    /\ ~(result.ctype = "string" /\ result.content = << >>)

\* The text extraction of callClaudeWithRotation, before trim.
ExtractText(result) ==
    IF result.t = "string" THEN result.content
    ELSE IF HasContent(result)
         THEN IF result.ctype = "string" THEN result.content
              ELSE IF result.ctype = "array"
                   THEN JoinTexts(FilterTextual(result.blocks))
                   ELSE << >>
    ELSE IF result.t = "array" THEN JoinTexts(result.blocks)
    ELSE result.json

\* text.length < 150
SoftLimit == 150

failPhrases ==
    {"usage limit", "quota", "insufficient credit", "out of credits", "rate limit"}

\* Variant of the soft-failure test without the length threshold (the test
\* of the older rotation loop, src/unnamed/part_003:220-238).
IsSoftFailureAnyLength(text) ==
    \E p \in failPhrases : Includes(ToLowerCase(text), p)

\* The soft-failure test on the trimmed text.
IsSoftFailure(text) ==
    /\ StrLen(text) < SoftLimit
    /\ \E p \in failPhrases : Includes(ToLowerCase(text), p)

\* Variant of the iteration without the validation of the payload (the
\* older loop, src/api/bot.js:181-196, takes whatever the call returned).
AttemptUnvalidated(result) ==
    IF result.t = "throw" THEN [ok |-> FALSE, text |-> << >>, err |-> result.emsg]
    ELSE LET text == StrTrim(ExtractText(result))
         IN IF IsSoftFailure(text)
            THEN [ok |-> FALSE, text |-> << >>,
                  err |-> StrCat(Str("Quota exceeded: "), text)]
            ELSE [ok |-> TRUE, text |-> text, err |-> << >>]

\* One iteration of the rotation loop for the payload `result`: either the
\* accepted text (ok) or the error caught for this credential (err).
Attempt(result) ==
    IF result.t = "throw" THEN [ok |-> FALSE, text |-> << >>, err |-> result.emsg]
    ELSE IF IsFalsy(result)
         THEN [ok |-> FALSE, text |-> << >>, err |-> Str("Empty response")]
    ELSE IF result.error
         THEN [ok |-> FALSE, text |-> << >>, err |-> result.json]
    ELSE LET text == StrTrim(ExtractText(result))
         IN IF IsSoftFailure(text)
            THEN [ok |-> FALSE, text |-> << >>,
                  err |-> StrCat(Str("Quota exceeded: "), text)]
            ELSE [ok |-> TRUE, text |-> text, err |-> << >>]

RECURSIVE Dedup(_)
\* [...new Set(list)] : the first occurrence of every value, in order.
Dedup(list) ==
    IF list = << >> THEN << >>
    ELSE LET init == Dedup(SubSeq(list, 1, Len(list) - 1))
             last == list[Len(list)]
         IN IF \E i \in 1..Len(init) : init[i] = last THEN init
            ELSE Append(init, last)

\* Variant of the combination without the Set: plain concatenation.
CombinedConcatenated(staticTokens, dynamicTokens) == staticTokens \o dynamicTokens

\* const combined = [...new Set([...staticTokens, ...dynamicTokens])]
Combined(staticTokens, dynamicTokens) == Dedup(staticTokens \o dynamicTokens)

\* getAllTokens, given the dynamic list it read (<< >> when the read failed
\* or the key is absent).  Throws when the result is empty.
getAllTokens(dynamicTokens) == Combined(StaticTokens, dynamicTokens)

\* The draws of Math.random in the shuffle of n tokens: draw[i] is the
\* index j in 0..i chosen for i = n-1 .. 1.
Draws(n) == { d \in [1..(n - 1) -> 0..(n - 1)] : \A i \in 1..(n - 1) : d[i] <= i }

\* Variant of the exchange that assigns one way only (tokens[i] = tokens[j]).
SwapCopy(s, a, b) == [s EXCEPT ![a] = s[b]]

\* [tokens[i], tokens[j]] = [tokens[j], tokens[i]]
Swap(s, a, b) == [s EXCEPT ![a] = s[b], ![b] = s[a]]

RECURSIVE ShuffleFrom(_, _, _)
\* for (i = ...; i > 0; i--) [tokens[i], tokens[j]] = [tokens[j], tokens[i]]
\* (indices of the code are 0-based, those of the sequence 1-based).
ShuffleFrom(tokens, i, draw) ==
    IF i <= 0 THEN tokens
    ELSE ShuffleFrom(Swap(tokens, i + 1, draw[i] + 1), i - 1, draw)

Shuffle(tokens, draw) == ShuffleFrom(tokens, Len(tokens) - 1, draw)


(***************************************************************************)
(* Formatting and the stored history                                       *)
(***************************************************************************)

\* Number of "**" delimiters in t.
RECURSIVE CountBold(_)
CountBold(t) ==
    IF t = << >> THEN 0
    ELSE (IF t[1].w = "**" THEN t[1].n ELSE 0) + CountBold(Tail(t))

RECURSIVE UnboldFrom(_, _, _)
\* .replace(/\*\*(.*?)\*\*/g, '*$1*') on a text without line breaks between
\* the delimiters: the delimiters pair up from the left, a last unpaired
\* one stays.  `seen` delimiters precede t, `paired` of all are paired.
UnboldFrom(t, seen, paired) ==
    IF t = << >> THEN << >>
    ELSE IF t[1].w # "**"
         THEN StrCat(<< t[1] >>, UnboldFrom(Tail(t), seen, paired))
    ELSE LET k == IF seen + t[1].n <= paired THEN t[1].n
                  ELSE IF seen >= paired THEN 0 ELSE paired - seen
             one == IF k > 0 THEN << Run("*", k) >> ELSE << >>
             two == IF t[1].n - k > 0 THEN << Run("**", t[1].n - k) >> ELSE << >>
         IN StrCat(StrCat(one, two),
                   UnboldFrom(Tail(t), seen + t[1].n, paired))

\* .replace(/^\s*[-_*]{3,}\s*$/gm, '') for a rule that stands alone on its
\* line.
DropRules(t) ==
    LET isRule(i) == /\ t[i].w = "---"
                     /\ (i = 1 \/ t[i - 1].w = "NL")
                     /\ (i = Len(t) \/ t[i + 1].w = "NL")
        keep == { i \in 1..Len(t) : ~isRule(i) }
        F[i \in 0..Len(t)] ==
            IF i = 0 THEN << >>
            ELSE IF i \in keep THEN StrCat(F[i - 1], << t[i] >>) ELSE F[i - 1]
    IN F[Len(t)]

\* cleanReply: the rewriting of the provider's markup, then trim.  The texts
\* of the model hold no header, underline or list markers, which the other
\* replacements of the chain would rewrite.
Format(finalResponse) ==
    StrTrim(DropRules(
        UnboldFrom(finalResponse, 0, 2 * (CountBold(finalResponse) \div 2))))

\* history.length > 20
HISTORY_CAP == 20

\* Variant of the trim that keeps the oldest entries (slice(0, 20)).
TrimHistoryOldest(history) ==
    IF Len(history) > HISTORY_CAP
    THEN SubSeq(history, 1, HISTORY_CAP)
    ELSE history

\* if (history.length > 20) history = history.slice(-20)
TrimHistory(history) ==
    IF Len(history) > HISTORY_CAP
    THEN SubSeq(history, Len(history) - HISTORY_CAP + 1, Len(history))
    ELSE history

Message(role, content) == [role |-> role, content |-> content]

\* Number of trailing history entries handed to the router.
ROUTER_CONTEXT == 3

\* const routerMessages = [{role: "system", content: routerPrompt},
\*                         ...history.slice(-3)]
RouterMessages(history) ==
    << Message("system", Str("routerPrompt")) >>
       \o (IF Len(history) > ROUTER_CONTEXT
           THEN SubSeq(history, Len(history) - ROUTER_CONTEXT + 1, Len(history))
           ELSE history)

\* The hidden suffix stored after the reply of a search with results.
HiddenSearchData(searchQuery, searchResults) ==
    StrCat(StrCat(StrCat(StrCat(Str("NLNL:::SEARCH_CONTEXT:::NLQuery: "), searchQuery),
                         Str("NL")), searchResults),
           Str("NL:::END_SEARCH_CONTEXT:::"))

\* Variant that stores the displayed text alone (the handler without the
\* hidden suffix, src/unnamed/part_009:802-809).
DbContentDisplayed(cleanReply, hiddenSearchData) == cleanReply

\* dbContent = cleanReply + hiddenSearchData
DbContent(cleanReply, hiddenSearchData) == StrCat(cleanReply, hiddenSearchData)

\* const MAX_CHUNK = 4000
MAX_CHUNK == 4000

\* Variant of the chunk without its end: cleanReply.substring(i).
ChunkToEnd(cleanReply, i) == StrDrop(cleanReply, i)

\* cleanReply.substring(i, i + MAX_CHUNK)
Chunk(cleanReply, i) == Substring(cleanReply, i, i + MAX_CHUNK)

(***************************************************************************)
(* The key-value store                                                     *)
(***************************************************************************)

\* A stored value: absent (null), an array, a falsy value that is no array
\* (0, "", false) or a truthy value that is no array (an object, a string).
Absent == [k |-> "absent", v |-> << >>]
Arr(v) == [k |-> "array", v |-> v]
FalsyValue == [k |-> "falsy", v |-> << >>]
ObjectValue == [k |-> "object", v |-> << >>]

\* value || []
OrEmptyArray(value) ==
    IF value.k \in {"absent", "falsy"} THEN Arr(<< >>) ELSE value

\* Conversations (chat ids) and process.env.WHITELIST after split and trim:
\* two allowed conversations and a stranger.
Chats == {1, 2, 3}

\* process.env.WHITELIST: unset, or a text of comma-separated fields, each
\* the decimal form of a chat id (the text "" has no field at all).
EnvUnset == [set |-> FALSE, fields |-> << >>]
EnvText(fields) == [set |-> TRUE, fields |-> fields]

\* The field "" of a split: it is the decimal form of no chat id.
EmptyField == 0

\* (process.env.WHITELIST || "").split(',').map(i => i.trim()): the text ""
\* splits into the one field "".
SplitWhitelist(env) ==
    IF ~env.set \/ env.fields = << >> THEN << EmptyField >> ELSE env.fields

WHITELIST == SplitWhitelist(EnvText(<< 1, 3 >>))

\* The chats that write to the bot when one conversation is followed: the
\* allowed conversation and the stranger.
Senders == {1, 2}

\* One history key for all conversations.
dbKeyShared(chatId) == 1

\* const dbKey = `chat_history:${chatId}`: one key per conversation.
dbKey(chatId) == chatId

\* One model preference key for all conversations.
modelKeyShared(chatId) == 1

\* const modelKey = `model_pref:${chatId}`: one key per conversation.
modelKey(chatId) == chatId

\* A stored model preference.
Pref(name) == [k |-> "string", v |-> name]

\* The name a text of one word spells.
Spell(t) == IF Len(t) = 1 /\ t[1].n = 1 THEN t[1].w ELSE "other"

\* allowed.length > 0 && !allowed.includes(chatId.toString()) is false
PassesGate(allowed, chatId) ==
    ~(Len(allowed) > 0 /\ ~(\E i \in 1..Len(allowed) : allowed[i] = chatId))

\* Variant of the gate that lets every conversation pass.
IsAllowedAny(chatId) == TRUE

\* The gate of the handler for the configured whitelist.
IsAllowed(chatId) == PassesGate(WHITELIST, chatId)


(***************************************************************************)
(* State                                                                   *)
(***************************************************************************)

VARIABLES
    kv,     \* the store: hist[chat], model[chat], tokens ('extra_tokens')
    rq,     \* rq[r]: the local state of the handler execution r
    seq     \* number of exchanges persisted so far (stamps the chat texts)

vars == << kv, rq, seq >>

\* Handler executions that may be in flight.
Reqs == {1, 2}

NoSearch == [null |-> TRUE, text |-> << >>]

\* The locals of one handler execution.  calls, sent, lastResult, lastOk,
\* accepted, before and loaded record what the execution did: the
\* completion calls of the running dispatch, the messages handed to the
\* transport, the payload of the latest call and how it was judged, for
\* every dispatch that returned the position (at) of the accepting
\* credential among the n shuffled ones and the number of calls the
\* dispatch made, and the value the read of the history key gave.
IdleReq ==
    [pc |-> "idle", chatId |-> 0, userMessage |-> << >>, history |-> << >>,
     before |-> Absent,
     activeModel |-> "", phase |-> "", tokens |-> << >>, idx |-> 0,
     hasLastError |-> FALSE, lastError |-> << >>, loop |-> "", text |-> << >>,
     routerResponse |-> << >>, route |-> "", searchQuery |-> << >>,
     searchResults |-> NoSearch, hiddenSearchData |-> << >>,
     finalResponse |-> << >>, cleanReply |-> << >>, i |-> 0,
     error |-> << >>, thrown |-> FALSE, persisted |-> FALSE,
     calls |-> << >>, nCalls |-> 0, lastResult |-> NullPayload,
     nSearch |-> 0, search |-> [keys |-> << >>, health |-> << >>, tried |-> << >>],
     lastOk |-> "none", accepted |-> << >>, loaded |-> FALSE,
     intent |-> [k |-> "none", action |-> "", query |-> << >>],
     prevCleared |-> 0, probed |-> << >>, issued |-> 0,
     tokBefore |-> Absent, currentExtras |-> << >>, total |-> 0,
     pool |-> [k |-> "none", staticTokens |-> << >>, dynamicTokens |-> << >>,
               combined |-> << >>],
     routerMessages |-> << >>, answerMessages |-> << >>,
     sent |-> << >>, acked |-> FALSE]

\* Variant of the acknowledgment that is returned while the execution is
\* still at its current step.
AckEarly(rec) == [rec EXCEPT !.acked = TRUE]

\* res.status(200).json(...): runs synchronously after the last await.
Ack(rec) == [rec EXCEPT !.pc = "done", !.acked = TRUE]

\* throw inside the chat flow's try block: control goes to its catch, which
\* picks its message by error.message.includes('Markdown').  finalResponse
\* is declared inside the try block, so reading it in the catch block
\* throws a ReferenceError; the inner try swallows it and the handler
\* acknowledges.  Otherwise the catch awaits the send of the error message.
Throw(rec, message) ==
    IF Includes(message, "Markdown")
    THEN Ack([rec EXCEPT !.error = message, !.thrown = TRUE])
    ELSE [rec EXCEPT !.pc = "catch", !.error = message, !.thrown = TRUE]

Sent(kind, text, markdown, ok) ==
    [kind |-> kind, text |-> text, markdown |-> markdown, ok |-> ok]

\* Errors a rejected transport call or a failed store call carries.
TransportErrors ==
    { Str("ETELEGRAM: 400 Bad Request"),
      << Run("ETELEGRAM: 400 Bad Request", 1), Run("Markdown", 1) >> }
KvError == Str("kv: request failed")

ClearCmd == Str("/clear")
UserText(k) == << Run("u", k) >>

\* The network call an execution of the handler awaits at each position: a call of the
\* store (kv.get, kv.set), of the transport (sendMessage, sendChatAction),
\* of the completion provider (puter.ai.chat) or of the search provider
\* (fetch), or none.
Awaiting(pc) ==
    CASE pc \in {"load", "pref", "d_tokens", "persist", "clear_set", "tok_get",
                 "tok_set", "tok_count", "ct_set", "use_set", "reset_del", "i_pref", "i_tokens",
                 "i_persist"} -> "store"
      [] pc \in {"typing", "s_typing", "send", "catch", "clear_send", "tok_dup",
                 "tok_added", "tok_fail", "ct_send", "use_missing", "use_send",
                 "reset_send", "i_typing", "i_send",
                 "i_catch"} -> "transport"
      [] pc \in {"d_call", "i_call"} -> "completion"
      [] pc \in {"search", "i_search"} -> "search"
      [] OTHER -> "none"

(***************************************************************************)
(* callClaudeWithRotation                                                  *)
(***************************************************************************)

\* Variant of the iteration that passes over the credential after a failed
\* one.
LoopBodySkipping(rec, result) ==
    LET a == Attempt(result)
        n == Len(rec.tokens)
        lastError == a.err
    IN IF a.ok
       THEN [rec EXCEPT !.loop = "return", !.text = a.text]
       ELSE [rec EXCEPT !.hasLastError = TRUE, !.lastError = lastError,
                        !.idx = rec.idx + 2,
                        !.loop = IF rec.idx + 2 > n THEN "throw" ELSE "next",
                        !.error = IF rec.idx + 2 > n
                                  THEN StrCat(Str("All tokens failed. Last error: "),
                                              lastError)
                                  ELSE rec.error]

\* Variant of the iteration that keeps an accepted text and still calls the
\* remaining credentials (a `break` lost).
LoopBodyExhaustive(rec, result) ==
    LET a == Attempt(result)
        n == Len(rec.tokens)
        lastError == a.err
    IN IF a.ok
       THEN IF rec.idx + 1 > n
            THEN [rec EXCEPT !.loop = "return", !.text = a.text]
            ELSE [rec EXCEPT !.idx = rec.idx + 1, !.loop = "next", !.text = a.text]
       ELSE [rec EXCEPT !.hasLastError = TRUE, !.lastError = lastError,
                        !.idx = rec.idx + 1,
                        !.loop = IF rec.idx + 1 > n THEN "throw" ELSE "next",
                        !.error = IF rec.idx + 1 > n
                                  THEN StrCat(Str("All tokens failed. Last error: "),
                                              lastError)
                                  ELSE rec.error]

\* Variant of the iteration that keeps the error of the first failed
\* attempt (lastError = lastError || err).
LoopBodyFirstError(rec, result) ==
    LET a == Attempt(result)
        n == Len(rec.tokens)
        lastError == IF rec.hasLastError THEN rec.lastError ELSE a.err
    IN IF a.ok
       THEN [rec EXCEPT !.loop = "return", !.text = a.text]
       ELSE [rec EXCEPT !.hasLastError = TRUE, !.lastError = lastError,
                        !.idx = rec.idx + 1,
                        !.loop = IF rec.idx + 1 > n THEN "throw" ELSE "next",
                        !.error = IF rec.idx + 1 > n
                                  THEN StrCat(Str("All tokens failed. Last error: "),
                                              lastError)
                                  ELSE rec.error]

\* One iteration of `for (const token of tokens)` on the payload `result`
\* of tokens[idx]: loop = "return" with the accepted text, "throw" with the
\* error after the last credential, or "next".
\* Variant of the iteration that goes through the pool a second time before
\* it gives up.
LoopBodySecondRound(rec, result) ==
    LET a == Attempt(result)
        n == Len(rec.tokens)
        lastError == a.err
        last == Len(rec.calls) >= 2 * n
    IN IF a.ok
       THEN [rec EXCEPT !.loop = "return", !.text = a.text]
       ELSE [rec EXCEPT !.hasLastError = TRUE, !.lastError = lastError,
                        !.idx = IF last THEN rec.idx + 1 ELSE (rec.idx % n) + 1,
                        !.issued = IF last THEN @ ELSE @ + 1,
                        !.loop = IF last THEN "throw" ELSE "next",
                        !.error = IF last
                                  THEN StrCat(Str("All tokens failed. Last error: "),
                                              lastError)
                                  ELSE rec.error]

LoopBody(rec, result) ==
    LET a == Attempt(result)
        n == Len(rec.tokens)
        lastError == a.err
    IN IF a.ok
       THEN [rec EXCEPT !.loop = "return", !.text = a.text]
       ELSE [rec EXCEPT !.hasLastError = TRUE, !.lastError = lastError,
                        !.idx = rec.idx + 1,
                        !.issued = IF rec.idx + 1 > n THEN @ ELSE @ + 1,
                        !.loop = IF rec.idx + 1 > n THEN "throw" ELSE "next",
                        !.error = IF rec.idx + 1 > n
                                  THEN StrCat(Str("All tokens failed. Last error: "),
                                              lastError)
                                  ELSE rec.error]

\* Variant of the start of a dispatch that issues the calls for all
\* credentials at once (Promise.all over the pool).
StartDispatchFanOut(rec, dynamicTokens, draw) ==
    LET combined == getAllTokens(dynamicTokens)
    IN IF combined = << >>
       THEN Throw(rec, Str("No PUTER_AUTH_TOKEN found in Env or DB."))
       ELSE [rec EXCEPT !.tokens = Shuffle(combined, draw), !.idx = 1,
                        !.hasLastError = FALSE, !.lastError = << >>,
                        !.loop = "next", !.calls = << >>, !.pc = "d_call",
                        !.issued = Len(combined),
                        !.lastResult = NullPayload, !.lastOk = "none"]

\* The start of a dispatch: getAllTokens and the shuffle.  dynamicTokens is
\* what kv.get('extra_tokens') || [] gave ([] when the read threw).
\* `issued` counts the calls of puter.ai.chat this dispatch has started: the
\* first one here, each further one when the loop goes on to the next
\* credential; `calls` holds those that have completed.
StartDispatch(rec, dynamicTokens, draw) ==
    LET combined == getAllTokens(dynamicTokens)
    IN IF combined = << >>
       THEN Throw(rec, Str("No PUTER_AUTH_TOKEN found in Env or DB."))
       ELSE [rec EXCEPT !.tokens = Shuffle(combined, draw), !.idx = 1,
                        !.hasLastError = FALSE, !.lastError = << >>,
                        !.loop = "next", !.calls = << >>, !.pc = "d_call",
                        !.issued = 1,
                        !.lastResult = NullPayload, !.lastOk = "none"]

(***************************************************************************)
(* The handler                                                             *)
(***************************************************************************)

Set(r, rec) == rq' = [rq EXCEPT ![r] = rec]

\* The messages offered to execution r: /clear, and a chat text while fewer
\* than maxSeq exchanges were persisted.
Inbound(maxSeq) ==
    {ClearCmd} \cup (IF seq < maxSeq THEN {UserText(seq + 1)} ELSE {})

\* userMessage.startsWith('ey') && !userMessage.includes(' ')
\*    && userMessage.length > 50
IsToken(userMessage) ==
    /\ StartsWith(userMessage, "ey")
    /\ ~Includes(userMessage, " ")
    /\ StrLen(userMessage) > 50

ClearTokensCmd == Str("/cleartokens")

ResetCmd == Str("/reset")

\* '/use <name>'
UseCmd(name) == << Run("/use", 1), Run(" ", 1), Run(name, 1) >>

\* const newModel = userMessage.replace('/use', '').trim()
newModel(userMessage) == StrTrim(ReplaceFirst(userMessage, "/use"))

\* The conversation whose history the execution `rec` has cleared with
\* /clear (its kv.set returned), or 0.
Cleared(rec) ==
    IF rec.userMessage = ClearCmd /\ (rec.pc = "clear_send" \/ rec.sent # << >>)
    THEN rec.chatId ELSE 0

\* The webhook delivers one of `messages` as a text message: whitelist
\* gate and command chain; the execution before it has ended, with an
\* acknowledgment or with an uncaught exception.
Receive(r, chats, messages) ==
    /\ rq[r].pc \in {"idle", "done", "crashed", "pruned"}
    /\ \E c \in chats, m \in messages :
          LET userMessage == StrTrim(m)
              rec == [IdleReq EXCEPT !.chatId = c, !.userMessage = userMessage,
                                     !.prevCleared = Cleared(rq[r])]
          IN Set(r, IF ~IsAllowed(c) THEN Ack(rec)
                    ELSE IF IsToken(userMessage)
                         THEN [rec EXCEPT !.pc = "tok_get"]
                    ELSE IF userMessage = ClearCmd
                         THEN [rec EXCEPT !.pc = "clear_set"]
                    ELSE IF userMessage = ClearTokensCmd
                         THEN [rec EXCEPT !.pc = "ct_set"]
                    ELSE IF StartsWith(userMessage, "/use")
                         THEN IF newModel(userMessage) = << >>
                              THEN [rec EXCEPT !.pc = "use_missing"]
                              ELSE [rec EXCEPT !.pc = "use_set"]
                    ELSE IF userMessage = ResetCmd
                         THEN [rec EXCEPT !.pc = "reset_del"]
                    ELSE [rec EXCEPT !.pc = "typing"])
    /\ UNCHANGED << kv, seq >>

\* Variant of /clear that leaves the stored history as it is.
ClearSetKept(r) ==
    /\ rq[r].pc = "clear_set"
    /\ \/ Set(r, [rq[r] EXCEPT !.pc = "clear_send"])
       \/ Set(r, [rq[r] EXCEPT !.pc = "crashed"])
    /\ UNCHANGED << kv, seq >>

\* /clear: await kv.set(dbKey, []), outside any try block.
ClearSet(r) ==
    /\ rq[r].pc = "clear_set"
    /\ \/ /\ kv' = [kv EXCEPT !.hist[dbKey(rq[r].chatId)] = Arr(<< >>)]
          /\ Set(r, [rq[r] EXCEPT !.pc = "clear_send"])
       \/ /\ Set(r, [rq[r] EXCEPT !.pc = "crashed"])
          /\ UNCHANGED kv
    /\ UNCHANGED seq

\* /use without a name: await bot.sendMessage(chatId, "Specify model...")
\* outside any try block.
UseMissing(r) ==
    /\ rq[r].pc = "use_missing"
    /\ \/ Set(r, Ack([rq[r] EXCEPT
                         !.sent = Append(@, Sent("command", Str("specify"), TRUE, TRUE))]))
       \/ Set(r, [rq[r] EXCEPT !.pc = "crashed",
                     !.sent = Append(@, Sent("command", Str("specify"), TRUE, FALSE))])
    /\ UNCHANGED << kv, seq >>

\* /use: await kv.set(modelKey, newModel), outside any try block.
UseSet(r) ==
    /\ rq[r].pc = "use_set"
    /\ \/ /\ kv' = [kv EXCEPT !.model[modelKey(rq[r].chatId)] =
                                  Pref(Spell(newModel(rq[r].userMessage)))]
          /\ Set(r, [rq[r] EXCEPT !.pc = "use_send"])
       \/ /\ Set(r, [rq[r] EXCEPT !.pc = "crashed"])
          /\ UNCHANGED kv
    /\ UNCHANGED seq

\* /use: await bot.sendMessage(chatId, "Switched to: ...")
UseSend(r) ==
    /\ rq[r].pc = "use_send"
    /\ \/ Set(r, Ack([rq[r] EXCEPT
                         !.sent = Append(@, Sent("command", Str("switched"), TRUE, TRUE))]))
       \/ Set(r, [rq[r] EXCEPT !.pc = "crashed",
                     !.sent = Append(@, Sent("command", Str("switched"), TRUE, FALSE))])
    /\ UNCHANGED << kv, seq >>

\* /reset: await kv.del(modelKey), outside any try block.
ResetDel(r) ==
    /\ rq[r].pc = "reset_del"
    /\ \/ /\ kv' = [kv EXCEPT !.model[modelKey(rq[r].chatId)] = Absent]
          /\ Set(r, [rq[r] EXCEPT !.pc = "reset_send"])
       \/ /\ Set(r, [rq[r] EXCEPT !.pc = "crashed"])
          /\ UNCHANGED kv
    /\ UNCHANGED seq

\* /reset: await bot.sendMessage(chatId, "Reverted to: ...")
ResetSend(r) ==
    /\ rq[r].pc = "reset_send"
    /\ \/ Set(r, Ack([rq[r] EXCEPT
                         !.sent = Append(@, Sent("command", Str("reverted"), TRUE, TRUE))]))
       \/ Set(r, [rq[r] EXCEPT !.pc = "crashed",
                     !.sent = Append(@, Sent("command", Str("reverted"), TRUE, FALSE))])
    /\ UNCHANGED << kv, seq >>

\* /clear: await bot.sendMessage(chatId, "Memory cleared.")
ClearSend(r) ==
    /\ rq[r].pc = "clear_send"
    /\ \/ Set(r, Ack([rq[r] EXCEPT
                         !.sent = Append(@, Sent("command", Str("cleared"), FALSE, TRUE))]))
       \/ Set(r, [rq[r] EXCEPT !.pc = "crashed",
                     !.sent = Append(@, Sent("command", Str("cleared"), FALSE, FALSE))])
    /\ UNCHANGED << kv, seq >>

\* await bot.sendChatAction(chatId, 'typing') before the try block.
SendTyping(r) ==
    /\ rq[r].pc = "typing"
    /\ \/ Set(r, [rq[r] EXCEPT !.pc = "load"])
       \/ Set(r, [rq[r] EXCEPT !.pc = "crashed"])
    /\ UNCHANGED << kv, seq >>

\* Variant of the load that writes the history back as soon as the user
\* message is appended.
LoadHistorySaved(r) ==
    /\ rq[r].pc = "load"
    /\ \/ LET stored == kv.hist[dbKey(rq[r].chatId)]
              history == OrEmptyArray(stored)
          IN IF history.k = "array"
             THEN /\ Set(r, [rq[r] EXCEPT !.pc = "pref", !.before = stored,
                                !.loaded = TRUE,
                                !.history = Append(history.v,
                                                   Message("user", rq[r].userMessage))])
                  /\ kv' = [kv EXCEPT !.hist[dbKey(rq[r].chatId)] =
                               Arr(Append(history.v, Message("user", rq[r].userMessage)))]
             ELSE /\ Set(r, Throw([rq[r] EXCEPT !.before = stored, !.loaded = TRUE],
                                  Str("history.push is not a function")))
                  /\ UNCHANGED kv
       \/ /\ Set(r, Throw(rq[r], KvError))
          /\ UNCHANGED kv
    /\ UNCHANGED seq

\* let history = await kv.get(dbKey) || []; history.push(user message)
LoadHistory(r) ==
    /\ rq[r].pc = "load"
    /\ \/ LET stored == kv.hist[dbKey(rq[r].chatId)]
              history == OrEmptyArray(stored)
          IN IF history.k = "array"
             THEN Set(r, [rq[r] EXCEPT !.pc = "pref", !.before = stored,
                             !.loaded = TRUE,
                             !.history = Append(history.v,
                                                Message("user", rq[r].userMessage))])
             ELSE Set(r, Throw([rq[r] EXCEPT !.before = stored, !.loaded = TRUE],
                               Str("history.push is not a function")))
       \/ Set(r, Throw(rq[r], KvError))
    /\ UNCHANGED << kv, seq >>

\* const userModelPref = await kv.get(modelKey); activeModel; routerMessages
\* is built and the router dispatch begins.
LoadModelPref(r) ==
    /\ rq[r].pc = "pref"
    /\ \/ LET pref == kv.model[modelKey(rq[r].chatId)]
          IN Set(r, [rq[r] EXCEPT !.pc = "d_tokens", !.phase = "router",
                        !.activeModel = IF pref.k = "absent" THEN DEFAULT_MODEL
                                        ELSE pref.v,
                        !.routerMessages = RouterMessages(rq[r].history)])
       \/ Set(r, Throw(rq[r], KvError))
    /\ UNCHANGED << kv, seq >>

\* getAllTokens (the read of 'extra_tokens' may throw, which is caught) and
\* the shuffle.
GetTokens(r) ==
    /\ rq[r].pc = "d_tokens"
    /\ \E readOk \in BOOLEAN :
          LET value == OrEmptyArray(kv.tokens)
              dynamicTokens == IF readOk /\ value.k = "array" THEN value.v ELSE << >>
          IN \E draw \in Draws(Len(getAllTokens(dynamicTokens))) :
                Set(r, StartDispatch(rq[r], dynamicTokens, draw))
    /\ UNCHANGED << kv, seq >>

\* return text: the locals of callClaudeWithRotation go out of scope.
Returned(rec) ==
    [rec EXCEPT !.tokens = << >>, !.idx = 0, !.hasLastError = FALSE,
                !.lastError = << >>, !.loop = "", !.text = << >>,
                !.calls = << >>, !.issued = 0,
                !.accepted = Append(@, [phase |-> rec.phase, at |-> rec.idx,
                                        n |-> Len(rec.tokens),
                                        calls |-> Len(rec.calls),
                                        model |-> rec.calls[Len(rec.calls)].model])]

\* { role: "system", content: process.env.SYSTEM_PROMPT || "You are a
\* helpful assistant." } (the direct route appends the output rule).
SystemMessage == Message("system", Str("SYSTEM_PROMPT"))

\* contextMsg: the system message that carries the search query and the
\* results (or "No results found.").
ContextMsg(searchQuery, searchResults) ==
    Message("system",
            StrCat(StrCat(Str("[SYSTEM DATA] Search Query: "), searchQuery),
                   IF searchResults.null \/ searchResults.text = << >>
                   THEN Str("No results found.")
                   ELSE searchResults.text))

\* answerMessages of the direct route: [system, ...history]
DirectAnswerMessages(history) == << SystemMessage >> \o history

\* answerMessages of the search route:
\* [system, ...history.slice(0, -1), contextMsg, {user: userMessage}]
SearchAnswerMessages(history, contextMsg, userMessage) ==
    << SystemMessage >> \o SubSeq(history, 1, Len(history) - 1)
       \o << contextMsg, Message("user", userMessage) >>

\* After the router dispatch returned: the SEARCH: prefix decides the route.
AfterRouter(rec, text) ==
    IF StartsWith(StrTrim(text), "SEARCH:")
    THEN [rec EXCEPT !.routerResponse = text, !.route = "search",
                     !.searchQuery = StrTrim(ReplaceFirst(text, "SEARCH:")),
                     !.pc = "s_typing"]
    ELSE [rec EXCEPT !.routerResponse = text, !.route = "direct",
                     !.answerMessages = DirectAnswerMessages(rec.history),
                     !.phase = "answer", !.pc = "d_tokens"]

\* Variant of the step after the answering dispatch that keeps the list
\* sent to the provider as the history.
AfterAnswerSentStored(rec, text) ==
    LET cleanReply == Format(text)
        dbContent == DbContent(cleanReply, rec.hiddenSearchData)
    IN [rec EXCEPT !.finalResponse = text, !.cleanReply = cleanReply,
                   !.history = TrimHistory(Append(rec.answerMessages,
                                                  Message("assistant", dbContent))),
                   !.pc = "persist"]

\* Variant of the step after the answering dispatch that goes on to the
\* send loop before the history is written.
AfterAnswerEmitFirst(rec, text) ==
    LET cleanReply == Format(text)
        dbContent == DbContent(cleanReply, rec.hiddenSearchData)
    IN [rec EXCEPT !.finalResponse = text, !.cleanReply = cleanReply,
                   !.history = TrimHistory(Append(rec.history,
                                                  Message("assistant", dbContent))),
                   !.i = 0,
                   !.pc = IF 0 < StrLen(cleanReply) THEN "send" ELSE "persist"]

\* After the answering dispatch returned: format, append, trim the history.
AfterAnswer(rec, text) ==
    LET cleanReply == Format(text)
        dbContent == DbContent(cleanReply, rec.hiddenSearchData)
    IN [rec EXCEPT !.finalResponse = text, !.cleanReply = cleanReply,
                   !.history = TrimHistory(Append(rec.history,
                                                  Message("assistant", dbContent))),
                   !.pc = "persist"]

\* await puter.ai.chat(messages, {model}) for tokens[idx], and the rest of
\* the loop iteration.
ChatCall(r, payloads) ==
    /\ rq[r].pc = "d_call"
    /\ \E result \in payloads :
          LET rec == rq[r]
              a == Attempt(result)
              called == [rec EXCEPT
                            !.calls = Append(@, [token |-> rec.tokens[rec.idx],
                                                 model |-> IF rec.phase = "router"
                                                           THEN DEFAULT_MODEL
                                                           ELSE rec.activeModel,
                                                 ok |-> a.ok]),
                            !.nCalls = @ + 1,
                            !.lastResult = result,
                            !.lastOk = IF a.ok THEN "accepted" ELSE "failed"]
              out == LoopBody(called, result)
          IN Set(r, IF out.loop = "return"
                    THEN IF rec.phase = "router"
                         THEN AfterRouter(Returned(out), out.text)
                         ELSE AfterAnswer(Returned(out), out.text)
                    ELSE IF out.loop = "throw" THEN Throw(out, out.error)
                    ELSE out)
    /\ UNCHANGED << kv, seq >>

\* await bot.sendChatAction(chatId, 'typing') in the search branch.
SearchTyping(r) ==
    /\ rq[r].pc = "s_typing"
    /\ \/ Set(r, [rq[r] EXCEPT !.pc = "search"])
       \/ \E e \in TransportErrors : Set(r, Throw(rq[r], e))
    /\ UNCHANGED << kv, seq >>

\* process.env.TAVILY_API_KEY after split, trim and filter.
TAVILY_API_KEY == << "k1", "k2" >>

\* The rendered block of a successful search.
SearchBlock ==
    << Run("Tavily AI Summary: ", 1), Run("x", 30), Run("NLNLDetails:NL", 1),
       Run("x", 50) >>

\* The configurations and provider behaviours a search may meet when
\* `keys` are configured, or none: health tells what the search provider
\* does with a request made with each key: "ok", "status" (response.ok is
\* false) or "throw" (fetch or response.json rejects).
SearchCases(keys) ==
    LET K == { keys[i] : i \in 1..Len(keys) }
    IN { [keys |-> << >>, health |-> [k \in K |-> "ok"]] }
       \cup { [keys |-> keys, health |-> h] : h \in [K -> {"ok", "status", "throw"}] }

\* performTavilyResearch: null without keys; otherwise the one request made
\* with keys[pick], pick being the draw of Math.random (1-based here).
performTavilyResearch(keys, pick, health) ==
    IF keys = << >> THEN NoSearch
    ELSE IF health[keys[pick]] = "ok" THEN [null |-> FALSE, text |-> SearchBlock]
    ELSE NoSearch

\* Variant of the search step in which a failed search request throws into
\* the chat flow (performTavilyResearch of src/unnamed/part_003:43-81
\* rethrows, and nothing there would catch it here).
ResearchFatal(r, cases) ==
    /\ rq[r].pc = "search"
    /\ \E c \in cases : \E pick \in 1..(IF c.keys = << >> THEN 1 ELSE Len(c.keys)) :
          LET searchResults == performTavilyResearch(c.keys, pick, c.health)
              rec == [rq[r] EXCEPT
                         !.nSearch = @ + 1,
                         !.search = [keys |-> c.keys, health |-> c.health,
                                     tried |-> IF c.keys = << >> THEN << >>
                                               ELSE << c.keys[pick] >>]]
          IN Set(r, IF searchResults.null
                    THEN Throw(rec, Str("Tavily API failed"))
                    ELSE [rec EXCEPT
                        !.searchResults = searchResults,
                        !.hiddenSearchData =
                            IF ~searchResults.null /\ searchResults.text # << >>
                            THEN HiddenSearchData(rq[r].searchQuery, searchResults.text)
                            ELSE << >>,
                        !.answerMessages =
                            SearchAnswerMessages(rq[r].history,
                                                 ContextMsg(rq[r].searchQuery, searchResults),
                                                 rq[r].userMessage),
                        !.phase = "answer", !.pc = "d_tokens"])
    /\ UNCHANGED << kv, seq >>

\* const searchResults = await performTavilyResearch(searchQuery); the
\* hidden suffix; the answering dispatch begins.  search records the keys
\* configured, the provider's behaviour and the keys tried.
Research(r, cases) ==
    /\ rq[r].pc = "search"
    /\ \E c \in cases : \E pick \in 1..(IF c.keys = << >> THEN 1 ELSE Len(c.keys)) :
          LET searchResults == performTavilyResearch(c.keys, pick, c.health)
          IN Set(r, [rq[r] EXCEPT
                        !.nSearch = @ + 1,
                        !.search = [keys |-> c.keys, health |-> c.health,
                                    tried |-> IF c.keys = << >> THEN << >>
                                              ELSE << c.keys[pick] >>],
                        !.searchResults = searchResults,
                        !.hiddenSearchData =
                            IF ~searchResults.null /\ searchResults.text # << >>
                            THEN HiddenSearchData(rq[r].searchQuery, searchResults.text)
                            ELSE << >>,
                        !.answerMessages =
                            SearchAnswerMessages(rq[r].history,
                                                 ContextMsg(rq[r].searchQuery, searchResults),
                                                 rq[r].userMessage),
                        !.phase = "answer", !.pc = "d_tokens"])
    /\ UNCHANGED << kv, seq >>

\* Variant of the write that appends the exchange of this execution to
\* the list stored at the time of the write.
PersistAppended(r) ==
    /\ rq[r].pc = "persist"
    /\ \/ /\ LET stored == OrEmptyArray(kv.hist[dbKey(rq[r].chatId)])
                 n == Len(rq[r].history)
             IN kv' = [kv EXCEPT !.hist[dbKey(rq[r].chatId)] =
                          Arr(TrimHistory((IF stored.k = "array" THEN stored.v ELSE << >>)
                                             \o SubSeq(rq[r].history, n - 1, n)))]
          /\ seq' = seq + 1
          /\ LET rec == [rq[r] EXCEPT !.persisted = TRUE, !.i = 0]
             IN Set(r, IF 0 < StrLen(rec.cleanReply)
                       THEN [rec EXCEPT !.pc = "send"]
                       ELSE Ack(rec))
       \/ /\ Set(r, Throw(rq[r], KvError))
          /\ UNCHANGED << kv, seq >>

\* await kv.set(dbKey, history)
Persist(r) ==
    /\ rq[r].pc = "persist"
    /\ \/ /\ kv' = [kv EXCEPT !.hist[dbKey(rq[r].chatId)] = Arr(rq[r].history)]
          /\ seq' = seq + 1
          /\ LET rec == [rq[r] EXCEPT !.persisted = TRUE, !.i = 0]
             IN Set(r, IF 0 < StrLen(rec.cleanReply)
                       THEN [rec EXCEPT !.pc = "send"]
                       ELSE Ack(rec))
       \/ /\ Set(r, Throw(rq[r], KvError))
          /\ UNCHANGED << kv, seq >>

\* One iteration of the send loop: await bot.sendMessage(chatId,
\* cleanReply.substring(i, i + MAX_CHUNK), {parse_mode: 'Markdown'})
SendChunk(r) ==
    /\ rq[r].pc = "send"
    /\ LET chunk == Chunk(rq[r].cleanReply, rq[r].i)
           rec == [rq[r] EXCEPT
                      !.sent = Append(@, Sent("reply", chunk, TRUE, TRUE)),
                      !.i = @ + MAX_CHUNK]
       IN \/ Set(r, IF rec.i < StrLen(rec.cleanReply) THEN rec ELSE Ack(rec))
          \/ \E e \in TransportErrors :
                Set(r, Throw([rq[r] EXCEPT
                                 !.sent = Append(@, Sent("reply", chunk, TRUE, FALSE))],
                             e))
    /\ UNCHANGED << kv, seq >>

\* catch (error): await bot.sendMessage(chatId, `Error: ${error.message}`)
\* inside the inner try; a rejected send is swallowed.
Catch(r) ==
    /\ rq[r].pc = "catch"
    /\ \E ok \in BOOLEAN :
          Set(r, Ack([rq[r] EXCEPT
                         !.sent = Append(@, Sent("error",
                                                 StrCat(Str("!! Error: "), rq[r].error),
                                                 FALSE, ok))]))
    /\ UNCHANGED << kv, seq >>

(***************************************************************************)
(* Specification of the handler of src/api/bot.js:600                      *)
(***************************************************************************)

\* Largest number of exchanges persisted in a behaviour of Spec.
MaxSeq == 1

\* What the completion provider may answer to a call.
Payloads ==
    { Thrown(<< Run("e", 5) >>),
      Thrown(<< Run("e", 3), Run("Markdown", 1) >>),
      NullPayload,
      Bare(<< >>),
      ErrorObject(Str("{json}")),
      Msg(<< Run("You have reached your ", 1), Run("usage limit", 1) >>),
      Bare(<< Run(" ", 1), Run("QUOTA", 1), Run("x", 140), Run(" ", 20) >>),
      Msg(<< Run("quota", 1), Run("x", 144) >>),
      Msg(<< Run("quota", 1), Run("x", 145) >>),
      OtherObject(<< Run("{json}", 1), Run("quota", 1) >>),
      Msg(<< Run("x", 20) >>),
      Bare(<< Run(" ", 1), Run("SEARCH:", 1), Run(" ", 1), Run("x", 5) >>),
      Bare(<< Run("x", 4001) >>) }

Init ==
    /\ \E h \in {Absent, FalsyValue, ObjectValue} :
       \E t \in {Absent} \cup { Arr(l) : l \in DynLists } :
          kv = [hist |-> [c \in Chats |-> IF c = 1 THEN h ELSE Absent],
                model |-> [c \in Chats |-> Absent],
                tokens |-> t]
    /\ rq = [r \in Reqs |-> IdleReq]
    /\ seq = 0

Step(r, payloads, maxSeq) ==
    \/ Receive(r, Senders, Inbound(maxSeq))
    \/ ClearSet(r)
    \/ ClearSend(r)
    \/ SendTyping(r)
    \/ LoadHistory(r)
    \/ LoadModelPref(r)
    \/ GetTokens(r)
    \/ ChatCall(r, payloads)
    \/ SearchTyping(r)
    \/ Research(r, SearchCases(SubSeq(TAVILY_API_KEY, 1, 1)))
    \/ Persist(r)
    \/ SendChunk(r)
    \/ Catch(r)

\* One handler execution at a time.
Next == Step(1, Payloads, MaxSeq)

Spec == Init /\ [][Next]_vars

(***************************************************************************)
(* Specification of the search branch with two search keys configured:     *)
(* one conversation, the static credential only                            *)
(***************************************************************************)

\* Largest number of exchanges persisted in a behaviour of SpecSearch.
MaxSearchSeq == 1

SearchPayloads ==
    { Bare(<< Run(" ", 1), Run("SEARCH:", 1), Run(" ", 1), Run("x", 5) >>),
      Msg(<< Run("x", 20) >>),
      Thrown(<< Run("e", 5) >>) }

InitSearch ==
    /\ kv = [hist |-> [c \in Chats |-> Absent],
             model |-> [c \in Chats |-> Absent],
             tokens |-> Absent]
    /\ rq = [r \in Reqs |-> IdleReq]
    /\ seq = 0

NextSearch ==
    \/ Receive(1, Senders, Inbound(MaxSearchSeq))
    \/ ClearSet(1)
    \/ ClearSend(1)
    \/ SendTyping(1)
    \/ LoadHistory(1)
    \/ LoadModelPref(1)
    \/ GetTokens(1)
    \/ ChatCall(1, SearchPayloads)
    \/ SearchTyping(1)
    \/ Research(1, SearchCases(TAVILY_API_KEY))
    \/ Persist(1)
    \/ SendChunk(1)
    \/ Catch(1)

SpecSearch == InitSearch /\ [][NextSearch]_vars

(***************************************************************************)
(* Specification of long conversations: one conversation, the static       *)
(* credential only, a provider that answers or rejects                     *)
(***************************************************************************)

\* Largest number of exchanges persisted in a behaviour of SpecHist.
MaxHistSeq == 11

HistPayloads == { Msg(<< Run("x", 20) >>), Thrown(<< Run("e", 5) >>) }

InitHist ==
    /\ kv = [hist |-> [c \in Chats |-> Absent],
             model |-> [c \in Chats |-> Absent],
             tokens |-> Absent]
    /\ rq = [r \in Reqs |-> IdleReq]
    /\ seq = 0

NextHist ==
    \/ Receive(1, Senders, Inbound(MaxHistSeq))
    \/ ClearSet(1)
    \/ ClearSend(1)
    \/ SendTyping(1)
    \/ LoadHistory(1)
    \/ LoadModelPref(1)
    \/ GetTokens(1)
    \/ ChatCall(1, HistPayloads)
    \/ Persist(1)
    \/ SendChunk(1)
    \/ Catch(1)

SpecHist == InitHist /\ [][NextHist]_vars

(***************************************************************************)
(* The handler with the JSON intent router (src/unnamed/part_006:163-434):  *)
(* analyzeUserIntent, performExaResearch and the chat flow.  Its entry,    *)
(* its /clear command and its dispatcher callAIWithRotation are those of   *)
(* the handler above.                                                      *)
(***************************************************************************)

\* A parsed JSON value as far as the handler looks at it: k is "object",
\* "null" or "number"; action and query are the fields of an object ("" and
\* << >> when undefined).  k = "throw": JSON.parse throws a SyntaxError.
Json(k, action, query) == [k |-> k, action |-> action, query |-> query]

DirectIntent == Json("object", "DIRECT", << >>)

SearchJson == Str("{\"action\":\"SEARCH\",\"query\":\"q\"}")

\* JSON.parse(jsonStr)
JsonParse(jsonStr) ==
    IF jsonStr = SearchJson THEN Json("object", "SEARCH", Str("q"))
    ELSE IF jsonStr = Str("{\"action\":\"DIRECT\"}") THEN DirectIntent
    ELSE IF jsonStr = Str("{\"other\":1}") THEN Json("object", "", << >>)
    ELSE IF jsonStr = Str("null") THEN Json("null", "", << >>)
    ELSE IF jsonStr = Str("42") THEN Json("number", "", << >>)
    ELSE Json("throw", "", << >>)

RECURSIVE RemoveAll(_, _)
\* text.replace(/p/g, '') for a literal p that is a word of the model.
RemoveAll(t, p) ==
    IF t = << >> THEN t
    ELSE IF t[1].w = p THEN RemoveAll(Tail(t), p)
    ELSE StrCat(<< t[1] >>, RemoveAll(Tail(t), p))

\* jsonStr: the response without its code-fence markers, trimmed.
StripFences(response) ==
    LET opening == "FENCEjson"
        closing == "FENCE"
    IN StrTrim(RemoveAll(RemoveAll(response, opening), closing))

\* The try block of analyzeUserIntent for the response of the dispatch; a
\* SyntaxError of JSON.parse is caught and gives { action: "DIRECT" }.
analyzeUserIntent(response) ==
    LET parsed == JsonParse(StripFences(response))
    IN IF parsed.k = "throw" THEN DirectIntent ELSE parsed

\* throw inside the chat flow's try block of this handler.
ThrowIntent(rec, message) ==
    [rec EXCEPT !.pc = "i_catch", !.error = message, !.thrown = TRUE]

\* analyzeUserIntent returned `intent`; history.push(user message).
Classified(rec, intent) ==
    [rec EXCEPT !.intent = intent,
                !.history = Append(@, Message("user", rec.userMessage)),
                !.pc = "i_pref"]

\* A dispatch threw: analyzeUserIntent catches it and answers DIRECT, the
\* answering dispatch lets it reach the handler's catch.
IntentFailed(rec, message) ==
    IF rec.phase = "router" THEN Classified(rec, DirectIntent)
    ELSE ThrowIntent(rec, message)

\* let history = await kv.get(dbKey) || []; analyzeUserIntent begins with
\* history.slice(-3), outside its try block.
IntentLoad(r) ==
    /\ rq[r].pc = "load"
    /\ \/ LET stored == kv.hist[dbKey(rq[r].chatId)]
              history == OrEmptyArray(stored)
              rec == [rq[r] EXCEPT !.before = stored, !.loaded = TRUE]
          IN IF history.k = "array"
             THEN Set(r, [rec EXCEPT !.history = history.v, !.phase = "router",
                                     !.pc = "i_tokens"])
             ELSE Set(r, ThrowIntent(rec, Str("history.slice is not a function")))
       \/ Set(r, ThrowIntent(rq[r], KvError))
    /\ UNCHANGED << kv, seq >>

\* callAIWithRotation: getAllTokens and the shuffle.
IntentGetTokens(r) ==
    /\ rq[r].pc = "i_tokens"
    /\ \E readOk \in BOOLEAN :
          LET value == OrEmptyArray(kv.tokens)
              dynamicTokens == IF readOk /\ value.k = "array" THEN value.v ELSE << >>
              combined == getAllTokens(dynamicTokens)
          IN \E draw \in Draws(Len(combined)) :
                Set(r, IF combined = << >>
                       THEN IntentFailed(rq[r],
                                         Str("No PUTER_AUTH_TOKEN found in Env or DB."))
                       ELSE [rq[r] EXCEPT
                                !.tokens = Shuffle(combined, draw), !.idx = 1,
                                !.hasLastError = FALSE, !.lastError = << >>,
                                !.loop = "next", !.calls = << >>, !.pc = "i_call",
                                !.lastResult = NullPayload, !.lastOk = "none"])
    /\ UNCHANGED << kv, seq >>

\* cleanReply of this handler: headers, bold and underline rewriting, trim.
FormatIntent(finalResponse) ==
    StrTrim(UnboldFrom(finalResponse, 0, 2 * (CountBold(finalResponse) \div 2)))

\* After the answering dispatch returned: format, append, trim the history.
IntentAnswered(rec, text) ==
    LET cleanReply == FormatIntent(text)
        dbContent == DbContent(cleanReply, rec.hiddenSearchData)
    IN [rec EXCEPT !.finalResponse = text, !.cleanReply = cleanReply,
                   !.history = TrimHistory(Append(rec.history,
                                                  Message("assistant", dbContent))),
                   !.pc = "i_persist"]

\* await puter.ai.chat(messages, {model}) for tokens[idx], and the rest of
\* the loop iteration, in analyzeUserIntent (ROUTER_MODEL) or in the chat
\* flow (activeModel).
IntentChatCall(r, payloads) ==
    /\ rq[r].pc = "i_call"
    /\ \E result \in payloads :
          LET rec == rq[r]
              a == Attempt(result)
              called == [rec EXCEPT
                            !.calls = Append(@, [token |-> rec.tokens[rec.idx],
                                                 model |-> IF rec.phase = "router"
                                                           THEN "gpt-4o"
                                                           ELSE rec.activeModel,
                                                 ok |-> a.ok]),
                            !.nCalls = @ + 1,
                            !.lastResult = result,
                            !.lastOk = IF a.ok THEN "accepted" ELSE "failed"]
              out == LoopBody(called, result)
          IN Set(r, IF out.loop = "return"
                    THEN IF rec.phase = "router"
                         THEN Classified([Returned(out) EXCEPT !.routerResponse = out.text],
                                         analyzeUserIntent(out.text))
                         ELSE IntentAnswered(Returned(out), out.text)
                    ELSE IF out.loop = "throw" THEN IntentFailed(out, out.error)
                    ELSE out)
    /\ UNCHANGED << kv, seq >>

\* const userModelPref = await kv.get(modelKey); activeModel; then
\* if (intent.action === 'SEARCH') : reading .action of null throws.
IntentModelPref(r) ==
    /\ rq[r].pc = "i_pref"
    /\ \/ LET pref == kv.model[modelKey(rq[r].chatId)]
              rec == [rq[r] EXCEPT !.activeModel = IF pref.k = "absent"
                                                   THEN DEFAULT_MODEL ELSE pref.v]
          IN Set(r, IF rec.intent.k = "null"
                    THEN ThrowIntent(rec,
                            Str("Cannot read properties of null (reading 'action')"))
                    ELSE IF rec.intent.action = "SEARCH"
                         THEN [rec EXCEPT !.route = "search",
                                          !.searchQuery = rec.intent.query,
                                          !.pc = "i_typing"]
                    ELSE [rec EXCEPT !.route = "direct", !.phase = "answer",
                                     !.pc = "i_tokens"])
       \/ Set(r, ThrowIntent(rq[r], KvError))
    /\ UNCHANGED << kv, seq >>

\* await bot.sendChatAction(chatId, 'typing') in the search branch.
IntentSearchTyping(r) ==
    /\ rq[r].pc = "i_typing"
    /\ \/ Set(r, [rq[r] EXCEPT !.pc = "i_search"])
       \/ \E e \in TransportErrors : Set(r, ThrowIntent(rq[r], e))
    /\ UNCHANGED << kv, seq >>

\* process.env.EXA_API_KEY after split, trim and filter.
EXA_API_KEY == << "k1" >>

\* performExaResearch for the outcome of its one fetch: "ok", "empty" (no
\* results), "status" (response.ok is false) or "throw".
performExaResearch(keys, outcome) ==
    IF keys = << >> THEN NoSearch
    ELSE IF outcome = "ok"
         THEN [null |-> FALSE,
               text |-> << Run("Exa Search Summary:NLNL", 1), Run("x", 50) >>]
    ELSE NoSearch

\* const searchResults = await performExaResearch(intent.query); the hidden
\* suffix; the answering dispatch begins.
IntentResearch(r) ==
    /\ rq[r].pc = "i_search"
    /\ \E outcome \in {"ok", "empty", "status", "throw"} :
          LET searchResults == performExaResearch(EXA_API_KEY, outcome)
          IN Set(r, [rq[r] EXCEPT
                        !.nSearch = @ + 1,
                        !.searchResults = searchResults,
                        !.hiddenSearchData =
                            IF ~searchResults.null /\ searchResults.text # << >>
                            THEN HiddenSearchData(rq[r].searchQuery, searchResults.text)
                            ELSE << >>,
                        !.phase = "answer", !.pc = "i_tokens"])
    /\ UNCHANGED << kv, seq >>

\* await kv.set(dbKey, history)
IntentPersist(r) ==
    /\ rq[r].pc = "i_persist"
    /\ \/ /\ kv' = [kv EXCEPT !.hist[dbKey(rq[r].chatId)] = Arr(rq[r].history)]
          /\ seq' = seq + 1
          /\ LET rec == [rq[r] EXCEPT !.persisted = TRUE, !.i = 0]
             IN Set(r, IF 0 < StrLen(rec.cleanReply)
                       THEN [rec EXCEPT !.pc = "i_send"]
                       ELSE Ack(rec))
       \/ /\ Set(r, ThrowIntent(rq[r], KvError))
          /\ UNCHANGED << kv, seq >>

\* One iteration of the send loop.
IntentSendChunk(r) ==
    /\ rq[r].pc = "i_send"
    /\ LET chunk == Chunk(rq[r].cleanReply, rq[r].i)
           rec == [rq[r] EXCEPT
                      !.sent = Append(@, Sent("reply", chunk, TRUE, TRUE)),
                      !.i = @ + MAX_CHUNK]
       IN \/ Set(r, IF rec.i < StrLen(rec.cleanReply) THEN rec ELSE Ack(rec))
          \/ \E e \in TransportErrors :
                Set(r, ThrowIntent([rq[r] EXCEPT
                                       !.sent = Append(@, Sent("reply", chunk, TRUE, FALSE))],
                                   e))
    /\ UNCHANGED << kv, seq >>

\* catch (error): await bot.sendMessage(chatId, `Error: ${error.message}`),
\* not guarded: a rejected send leaves the handler without acknowledgment.
IntentCatch(r) ==
    /\ rq[r].pc = "i_catch"
    /\ LET text == StrCat(Str("!! Error: "), rq[r].error)
       IN \/ Set(r, Ack([rq[r] EXCEPT
                            !.sent = Append(@, Sent("error", text, FALSE, TRUE))]))
          \/ Set(r, [rq[r] EXCEPT !.pc = "crashed",
                        !.sent = Append(@, Sent("error", text, FALSE, FALSE))])
    /\ UNCHANGED << kv, seq >>

\* Largest number of exchanges persisted in a behaviour of SpecIntent.
MaxIntentSeq == 1

\* What the completion provider may answer to a call: routing output, other
\* JSON, other text, and failures.
IntentPayloads ==
    { Bare(SearchJson),
      Msg(<< Run("FENCEjson", 1), Run("NL", 1), SearchJson[1], Run("NL", 1), Run("FENCE", 1) >>),
      Bare(Str("{\"action\":\"DIRECT\"}")),
      Bare(Str("{\"other\":1}")),
      Bare(Str("null")),
      Bare(Str("42")),
      Bare(<< Run("x", 20) >>),
      Bare(<< Run("SEARCH:", 1), Run(" ", 1), Run("x", 5) >>),
      Bare(<< Run(" ", 3) >>),
      Thrown(<< Run("e", 5) >>),
      Msg(<< Run("quota", 1), Run("x", 20) >>) }

InitIntent ==
    /\ \E h \in {Absent, ObjectValue} :
       \E t \in {Absent, Arr(<< Tok("A") >>)} :
          kv = [hist |-> [c \in Chats |-> IF c = 1 THEN h ELSE Absent],
                model |-> [c \in Chats |-> Absent],
                tokens |-> t]
    /\ rq = [r \in Reqs |-> IdleReq]
    /\ seq = 0

NextIntent ==
    \/ Receive(1, Senders, Inbound(MaxIntentSeq))
    \/ ClearSet(1)
    \/ ClearSend(1)
    \/ SendTyping(1)
    \/ IntentLoad(1)
    \/ IntentGetTokens(1)
    \/ IntentChatCall(1, IntentPayloads)
    \/ IntentModelPref(1)
    \/ IntentSearchTyping(1)
    \/ IntentResearch(1)
    \/ IntentPersist(1)
    \/ IntentSendChunk(1)
    \/ IntentCatch(1)

SpecIntent == InitIntent /\ [][NextIntent]_vars

(***************************************************************************)
(* The credential commands of the handler of src/api/bot.js:600: token      *)
(* injection (617-632) and /cleartokens (654-658)                          *)
(***************************************************************************)

\* Variant of the duplicate test that never finds the value.
ArrayIncludesNever(list, value) == FALSE

\* currentExtras.includes(userMessage)
ArrayIncludes(list, value) == \E i \in 1..Len(list) : list[i] = value

\* throw inside the try block of the token injection: its catch awaits the
\* send of the failure message.
ThrowToken(rec, message) ==
    [rec EXCEPT !.pc = "tok_fail", !.error = message, !.thrown = TRUE]

\* const currentExtras = await kv.get('extra_tokens') || [];
\* if (currentExtras.includes(userMessage)) ... else currentExtras.push(...)
TokenGet(r) ==
    /\ rq[r].pc = "tok_get"
    /\ \/ LET currentExtras == OrEmptyArray(kv.tokens)
              rec == [rq[r] EXCEPT !.tokBefore = kv.tokens]
          IN IF currentExtras.k # "array"
             THEN Set(r, ThrowToken(rec,
                            Str("currentExtras.includes is not a function")))
             ELSE IF ArrayIncludes(currentExtras.v, rec.userMessage)
             THEN Set(r, [rec EXCEPT !.currentExtras = currentExtras.v,
                                     !.pc = "tok_dup"])
             ELSE Set(r, [rec EXCEPT
                             !.currentExtras = Append(currentExtras.v, rec.userMessage),
                             !.pc = "tok_set"])
       \/ Set(r, ThrowToken([rq[r] EXCEPT !.tokBefore = kv.tokens], KvError))
    /\ UNCHANGED << kv, seq >>

\* await bot.sendMessage(chatId, "This token is already in the database.")
TokenDuplicate(r) ==
    /\ rq[r].pc = "tok_dup"
    /\ \/ Set(r, Ack([rq[r] EXCEPT
                         !.sent = Append(@, Sent("duplicate", Str("already"), FALSE, TRUE))]))
       \/ \E e \in TransportErrors :
             Set(r, ThrowToken([rq[r] EXCEPT
                       !.sent = Append(@, Sent("duplicate", Str("already"), FALSE, FALSE))], e))
    /\ UNCHANGED << kv, seq >>

\* await kv.set('extra_tokens', currentExtras)
TokenSet(r) ==
    /\ rq[r].pc = "tok_set"
    /\ \/ /\ kv' = [kv EXCEPT !.tokens = Arr(rq[r].currentExtras)]
          /\ Set(r, [rq[r] EXCEPT !.pc = "tok_count"])
       \/ /\ Set(r, ThrowToken(rq[r], KvError))
          /\ UNCHANGED kv
    /\ UNCHANGED seq

\* const total = (await getAllTokens()).length, for one of the static
\* configurations `configs` of process.env.PUTER_AUTH_TOKEN.
TokenCount(r, configs) ==
    /\ rq[r].pc = "tok_count"
    /\ \E staticTokens \in configs, readOk \in BOOLEAN :
          LET value == OrEmptyArray(kv.tokens)
              dynamicTokens == IF readOk /\ value.k = "array" THEN value.v ELSE << >>
              combined == Combined(staticTokens, dynamicTokens)
              rec == [rq[r] EXCEPT
                         !.pool = [k |-> IF readOk THEN "read" ELSE "failed",
                                   staticTokens |-> staticTokens,
                                   dynamicTokens |-> dynamicTokens,
                                   combined |-> combined]]
          IN IF Len(combined) = 0
             THEN Set(r, ThrowToken(rec, Str("No PUTER_AUTH_TOKEN found in Env or DB.")))
             ELSE Set(r, [rec EXCEPT !.total = Len(combined), !.pc = "tok_added"])
    /\ UNCHANGED << kv, seq >>

\* await bot.sendMessage(chatId, "Token Added! Total active tokens: " + total,
\*                       {parse_mode: 'Markdown'})
TokenAdded(r) ==
    /\ rq[r].pc = "tok_added"
    /\ \/ Set(r, Ack([rq[r] EXCEPT
                         !.sent = Append(@, Sent("added", Str("added"), TRUE, TRUE))]))
       \/ \E e \in TransportErrors :
             Set(r, ThrowToken([rq[r] EXCEPT
                       !.sent = Append(@, Sent("added", Str("added"), TRUE, FALSE))], e))
    /\ UNCHANGED << kv, seq >>

\* catch (e) { await bot.sendMessage(chatId, "Failed to save token: " +
\* e.message) }: the send is not guarded.
TokenFailed(r) ==
    /\ rq[r].pc = "tok_fail"
    /\ LET text == StrCat(Str("Failed to save token: "), rq[r].error)
       IN \/ Set(r, Ack([rq[r] EXCEPT
                            !.sent = Append(@, Sent("error", text, FALSE, TRUE))]))
          \/ Set(r, [rq[r] EXCEPT !.pc = "crashed",
                        !.sent = Append(@, Sent("error", text, FALSE, FALSE))])
    /\ UNCHANGED << kv, seq >>

\* /cleartokens: await kv.set('extra_tokens', []), outside any try block.
ClearTokensSet(r) ==
    /\ rq[r].pc = "ct_set"
    /\ \/ /\ kv' = [kv EXCEPT !.tokens = Arr(<< >>)]
          /\ Set(r, [rq[r] EXCEPT !.tokBefore = kv.tokens, !.pc = "ct_send"])
       \/ /\ Set(r, [rq[r] EXCEPT !.tokBefore = kv.tokens, !.pc = "crashed"])
          /\ UNCHANGED kv
    /\ UNCHANGED seq

\* /cleartokens: await bot.sendMessage(chatId, "Database tokens cleared.")
ClearTokensSend(r) ==
    /\ rq[r].pc = "ct_send"
    /\ \/ Set(r, Ack([rq[r] EXCEPT
                         !.sent = Append(@, Sent("command", Str("tokens cleared"), FALSE, TRUE))]))
       \/ Set(r, [rq[r] EXCEPT !.pc = "crashed",
                     !.sent = Append(@, Sent("command", Str("tokens cleared"), FALSE, FALSE))])
    /\ UNCHANGED << kv, seq >>

(***************************************************************************)
(* Specification of the credential commands: token injection and           *)
(* /cleartokens, for several static configurations                         *)
(***************************************************************************)

\* Values of process.env.PUTER_AUTH_TOKEN after split(','), trim and filter:
\* unset, one credential, two, and a value listed twice.
StaticConfigs ==
    { << >>, << Tok("S") >>, << Tok("S"), Tok("T") >>,
      << Tok("S"), Tok("S") >>, << Tok("S"), Tok("T"), Tok("S") >> }

\* Messages of the credential commands: a new credential, a credential that
\* is also configured statically, and /cleartokens.
PoolMessages == { Tok("A"), Tok("S"), ClearTokensCmd }

InitPool ==
    /\ \E t \in {Absent, FalsyValue, ObjectValue} :
          kv = [hist |-> [c \in Chats |-> Absent],
                model |-> [c \in Chats |-> Absent],
                tokens |-> t]
    /\ rq = [r \in Reqs |-> IdleReq]
    /\ seq = 0

NextPool ==
    \/ Receive(1, Senders, PoolMessages)
    \/ TokenGet(1)
    \/ TokenDuplicate(1)
    \/ TokenSet(1)
    \/ TokenCount(1, StaticConfigs)
    \/ TokenAdded(1)
    \/ TokenFailed(1)
    \/ ClearTokensSet(1)
    \/ ClearTokensSend(1)

SpecPool == InitPool /\ [][NextPool]_vars

(***************************************************************************)
(* Specification of the send loop: one conversation, the static credential *)
(* only, replies that are empty after formatting, short, long without a    *)
(* line break and long with line breaks                                    *)
(***************************************************************************)

\* Largest number of exchanges persisted in a behaviour of SpecChunk.
MaxChunkSeq == 1

ChunkPayloads ==
    { Msg(<< Run("x", 20) >>),
      Msg(<< Run("---", 1) >>),
      Msg(<< Run("x", 4001) >>),
      Msg(<< Run("x", 3000), Run("NL", 1), Run("x", 3000) >>),
      Msg(<< Run("x", 1000), Run("NL", 1), Run("x", 4500), Run("NL", 1), Run("x", 10) >>),
      Thrown(<< Run("e", 5) >>) }

InitChunk ==
    /\ kv = [hist |-> [c \in Chats |-> Absent],
             model |-> [c \in Chats |-> Absent],
             tokens |-> Absent]
    /\ rq = [r \in Reqs |-> IdleReq]
    /\ seq = 0

NextChunk ==
    \/ Receive(1, Senders, IF seq < MaxChunkSeq THEN {UserText(seq + 1)} ELSE {})
    \/ SendTyping(1)
    \/ LoadHistory(1)
    \/ LoadModelPref(1)
    \/ GetTokens(1)
    \/ ChatCall(1, ChunkPayloads)
    \/ Persist(1)
    \/ SendChunk(1)
    \/ Catch(1)

SpecChunk == InitChunk /\ [][NextChunk]_vars

(***************************************************************************)
(* Specification of the routing of the handler of src/api/bot.js:600: one  *)
(* search key, chat texts with and without the lookup prefix '/s ' of the  *)
(* handler of src/unnamed/part_003                                         *)
(***************************************************************************)

\* userMessage.startsWith('/s '): the deterministic match of the handler of
\* src/unnamed/part_003, which searches without asking a model.
IsLookup(userMessage) == StartsWith(userMessage, "/s ")

\* Largest number of exchanges persisted in a behaviour of SpecRoute.
MaxRouteSeq == 1

\* A chat text, and a chat text with the lookup prefix.
RouteMessages ==
    IF seq < MaxRouteSeq
    THEN { UserText(seq + 1), << Run("/s ", 1), Run("u", 5) >> }
    ELSE {}

RoutePayloads ==
    { Bare(<< Run(" ", 1), Run("SEARCH:", 1), Run(" ", 1), Run("x", 5) >>),
      Msg(<< Run("x", 20) >>),
      Thrown(<< Run("e", 5) >>) }

InitRoute ==
    /\ \E t \in { Arr(l) : l \in DynLists } :
          kv = [hist |-> [c \in Chats |-> Absent],
                model |-> [c \in Chats |-> Absent],
                tokens |-> t]
    /\ rq = [r \in Reqs |-> IdleReq]
    /\ seq = 0

NextRoute ==
    \/ Receive(1, Senders, RouteMessages)
    \/ SendTyping(1)
    \/ LoadHistory(1)
    \/ LoadModelPref(1)
    \/ GetTokens(1)
    \/ ChatCall(1, RoutePayloads)
    \/ SearchTyping(1)
    \/ Research(1, SearchCases(SubSeq(TAVILY_API_KEY, 1, 1)))
    \/ Persist(1)
    \/ SendChunk(1)
    \/ Catch(1)

SpecRoute == InitRoute /\ [][NextRoute]_vars

(***************************************************************************)
(* Specification of two executions of the handler that run concurrently    *)
(* for one conversation: the static credential only, no search             *)
(***************************************************************************)

\* Largest number of exchanges persisted in a behaviour of SpecRace.
MaxRaceSeq == 2

RacePayloads == { Msg(<< Run("x", 20) >>), Thrown(<< Run("e", 5) >>) }

\* The message of execution r: every exchange that gets stored carries a
\* text of its own.
RaceMessages(r) == IF seq < MaxRaceSeq THEN { UserText(2 * seq + r) } ELSE {}

InitRace ==
    /\ kv = [hist |-> [c \in Chats |-> Absent],
             model |-> [c \in Chats |-> Absent],
             tokens |-> Absent]
    /\ rq = [r \in Reqs |-> IdleReq]
    /\ seq = 0

StepRace(r) ==
    \/ Receive(r, {1}, RaceMessages(r))
    \/ SendTyping(r)
    \/ LoadHistory(r)
    \/ LoadModelPref(r)
    \/ GetTokens(r)
    \/ ChatCall(r, RacePayloads)
    \/ Persist(r)
    \/ SendChunk(r)
    \/ Catch(r)

NextRace == \E r \in Reqs : StepRace(r)

SpecRace == InitRace /\ [][NextRace]_vars

(***************************************************************************)
(* Specification of two executions of the handler that run concurrently    *)
(* for the two allowed conversations: execution 1 handles chat messages of  *)
(* conversation 1, execution 2 chat messages and credential commands of     *)
(* conversation 3; no search                                                *)
(***************************************************************************)

\* Largest number of exchanges persisted in a behaviour of SpecIso.
MaxIsoSeq == 2

\* The conversation execution r works for.
IsoChat(r) == IF r = 1 THEN 1 ELSE 3

IsoMessages(r) ==
    (IF seq < MaxIsoSeq THEN { UserText(r) } ELSE {})
       \cup (IF r = 1 THEN {} ELSE { Tok("A"), ClearTokensCmd })

InitIso ==
    /\ kv = [hist |-> [c \in Chats |-> Absent],
             model |-> [c \in Chats |-> Absent],
             tokens |-> Absent]
    /\ rq = [r \in Reqs |-> IdleReq]
    /\ seq = 0

StepIso(r) ==
    \/ Receive(r, {IsoChat(r)}, IsoMessages(r))
    \/ TokenGet(r)
    \/ TokenDuplicate(r)
    \/ TokenSet(r)
    \/ TokenCount(r, {StaticTokens})
    \/ TokenAdded(r)
    \/ TokenFailed(r)
    \/ ClearTokensSet(r)
    \/ ClearTokensSend(r)
    \/ SendTyping(r)
    \/ LoadHistory(r)
    \/ LoadModelPref(r)
    \/ GetTokens(r)
    \/ ChatCall(r, RacePayloads)
    \/ Persist(r)
    \/ SendChunk(r)
    \/ Catch(r)

NextIso == \E r \in Reqs : StepIso(r)

SpecIso == InitIso /\ [][NextIso]_vars

(***************************************************************************)
(* Specification of the text extraction: one conversation, the static       *)
(* credential only, payloads of every shape the extraction distinguishes    *)
(***************************************************************************)

\* Largest number of exchanges persisted in a behaviour of SpecExtract.
MaxExtractSeq == 1

ExtractPayloads ==
    { Bare(<< Run("x", 5) >>),
      Msg(<< Run("y", 6) >>),
      Msg(<< >>),
      MsgBlocks(<< Block("text", << Run("a", 3) >>), Block("text", << Run("b", 2) >>) >>),
      MsgBlocks(<< Block("text", << Run("a", 3) >>), Block("tool_use", << >>),
                   Block("text", << Run("b", 2) >>) >>),
      MsgBlocks(<< Block("thinking", << Run("t", 4) >>), Block("text", << Run("a", 3) >>) >>),
      ArrayPayload(<< Block("text", << Run("a", 3) >>), Block("text", << Run("b", 2) >>) >>),
      ArrayPayload(<< Block("image", << Run("i", 7) >>), Block("text", << Run("a", 3) >>) >>),
      Thrown(<< Run("e", 5) >>) }

InitExtract ==
    /\ kv = [hist |-> [c \in Chats |-> Absent],
             model |-> [c \in Chats |-> Absent],
             tokens |-> Absent]
    /\ rq = [r \in Reqs |-> IdleReq]
    /\ seq = 0

NextExtract ==
    \/ Receive(1, Senders, IF seq < MaxExtractSeq THEN {UserText(seq + 1)} ELSE {})
    \/ SendTyping(1)
    \/ LoadHistory(1)
    \/ LoadModelPref(1)
    \/ GetTokens(1)
    \/ ChatCall(1, ExtractPayloads)
    \/ Persist(1)
    \/ SendChunk(1)
    \/ Catch(1)

SpecExtract == InitExtract /\ [][NextExtract]_vars

(***************************************************************************)
(* Specification of the model preference: the two allowed conversations,   *)
(* one execution at a time, /use, /reset and chat messages, the static      *)
(* credential only                                                          *)
(***************************************************************************)

\* Largest number of exchanges persisted in a behaviour of SpecModel.
MaxModelSeq == 2

ModelPayloads ==
    { Msg(<< Run("x", 20) >>),
      Bare(<< Run("SEARCH:", 1), Run(" ", 1), Run("x", 5) >>),
      Thrown(<< Run("e", 5) >>) }

ModelMessages ==
    { UseCmd("gpt-4o"), Str("/use"), ResetCmd }
       \cup (IF seq < MaxModelSeq THEN { UserText(seq + 1) } ELSE {})

InitModel ==
    /\ kv = [hist |-> [c \in Chats |-> Absent],
             model |-> [c \in Chats |-> Absent],
             tokens |-> Absent]
    /\ rq = [r \in Reqs |-> IdleReq]
    /\ seq = 0

NextModel ==
    \/ Receive(1, {1, 3}, ModelMessages)
    \/ UseMissing(1)
    \/ UseSet(1)
    \/ UseSend(1)
    \/ ResetDel(1)
    \/ ResetSend(1)
    \/ SendTyping(1)
    \/ LoadHistory(1)
    \/ LoadModelPref(1)
    \/ GetTokens(1)
    \/ ChatCall(1, ModelPayloads)
    \/ SearchTyping(1)
    \/ Research(1, SearchCases(SubSeq(TAVILY_API_KEY, 1, 1)))
    \/ Persist(1)
    \/ SendChunk(1)
    \/ Catch(1)

SpecModel == InitModel /\ [][NextModel]_vars

(***************************************************************************)
(* Specification of two token registrations handled concurrently for one   *)
(* conversation: execution 1 registers credential A, execution 2           *)
(* credential A or B                                                        *)
(***************************************************************************)

AddMessages(r) == IF r = 1 THEN { Tok("A") } ELSE { Tok("A"), Tok("B") }

InitAdd ==
    /\ kv = [hist |-> [c \in Chats |-> Absent],
             model |-> [c \in Chats |-> Absent],
             tokens |-> Absent]
    /\ rq = [r \in Reqs |-> IdleReq]
    /\ seq = 0

StepAdd(r) ==
    \/ Receive(r, {1}, AddMessages(r))
    \/ TokenGet(r)
    \/ TokenDuplicate(r)
    \/ TokenSet(r)
    \/ TokenCount(r, {StaticTokens})
    \/ TokenAdded(r)
    \/ TokenFailed(r)

NextAdd == \E r \in Reqs : StepAdd(r)

SpecAdd == InitAdd /\ [][NextAdd]_vars

(***************************************************************************)
(* The pruning pass over the dynamic credentials.  The quota probe is that *)
(* of the /bal command (src/api/bot.js:683-703); no revision of the       *)
(* handler under src/ holds the pass itself, which is modelled after its   *)
(* contract: prune(isExhausted) removes the dynamic credentials whose      *)
(* probe reports zero remaining quota and keeps those whose probe fails.   *)
(***************************************************************************)

\* What `await puter.auth.getMonthlyUsage()` gives for one credential:
\* usageData.allowanceInfo.remaining positive or zero, a value without
\* allowanceInfo.remaining (null, undefined, {}), or a rejection.
ProbeOutcomes == { "remaining", "zero", "nothing", "throw" }

\* Variant of the test that treats every probe without a positive balance
\* as exhausted.
IsExhaustedFailClosed(outcome) == outcome # "remaining"

\* isExhausted: the probe reported zero remaining quota.
IsExhausted(outcome) == outcome = "zero"

\* A pruning pass starts; no message triggers it.
PruneStart(r) ==
    /\ rq[r].pc \in {"idle", "done", "crashed", "pruned"}
    /\ Set(r, [IdleReq EXCEPT !.pc = "prune_get"])
    /\ UNCHANGED << kv, seq >>

\* The pass reads the dynamic list.
PruneGet(r) ==
    /\ rq[r].pc = "prune_get"
    /\ \/ LET value == OrEmptyArray(kv.tokens)
              list == IF value.k = "array" THEN value.v ELSE << >>
          IN Set(r, [rq[r] EXCEPT !.tokBefore = kv.tokens, !.tokens = list,
                                  !.idx = 1, !.currentExtras = << >>,
                                  !.pc = IF list = << >> THEN "pruned"
                                         ELSE "prune_probe"])
       \/ Set(r, [rq[r] EXCEPT !.tokBefore = kv.tokens, !.thrown = TRUE,
                               !.error = KvError, !.pc = "pruned"])
    /\ UNCHANGED << kv, seq >>

\* The probe of tokens[idx]: the credential is dropped when isExhausted
\* holds of the outcome, kept otherwise.
PruneProbe(r) ==
    /\ rq[r].pc = "prune_probe"
    /\ \E outcome \in ProbeOutcomes :
          LET rec == rq[r]
              token == rec.tokens[rec.idx]
          IN Set(r, [rec EXCEPT
                        !.probed = Append(@, [token |-> token, outcome |-> outcome]),
                        !.currentExtras = IF IsExhausted(outcome) THEN @
                                          ELSE Append(@, token),
                        !.idx = @ + 1,
                        !.pc = IF rec.idx + 1 > Len(rec.tokens) THEN "prune_set"
                               ELSE "prune_probe"])
    /\ UNCHANGED << kv, seq >>

\* The pass writes the credentials it kept.
PruneSet(r) ==
    /\ rq[r].pc = "prune_set"
    /\ \/ /\ kv' = [kv EXCEPT !.tokens = Arr(rq[r].currentExtras)]
          /\ Set(r, [rq[r] EXCEPT !.pc = "pruned"])
       \/ /\ Set(r, [rq[r] EXCEPT !.thrown = TRUE, !.error = KvError,
                                  !.pc = "pruned"])
          /\ UNCHANGED kv
    /\ UNCHANGED seq

InitPrune ==
    /\ \E t \in {Absent} \cup { Arr(l) : l \in DynLists } :
          kv = [hist |-> [c \in Chats |-> Absent],
                model |-> [c \in Chats |-> Absent],
                tokens |-> t]
    /\ rq = [r \in Reqs |-> IdleReq]
    /\ seq = 0

\* Between the passes the credential B may be registered.
NextPrune ==
    \/ PruneStart(1)
    \/ PruneGet(1)
    \/ PruneProbe(1)
    \/ PruneSet(1)
    \/ Receive(1, Senders, { Tok("B") })
    \/ TokenGet(1)
    \/ TokenDuplicate(1)
    \/ TokenSet(1)
    \/ TokenCount(1, { StaticTokens })
    \/ TokenAdded(1)
    \/ TokenFailed(1)

SpecPrune == InitPrune /\ [][NextPrune]_vars

(***************************************************************************)
(* Properties of the dispatcher                                            *)
(***************************************************************************)

Elements(list) == { list[i] : i \in 1..Len(list) }

\* The dispatch of execution r ended at `throw new Error("All tokens
\* failed...")`.
Exhausted(rec) == rec.thrown /\ rec.loop = "throw"

\* The position in the shuffled order of the credential called last.
Position(rec) == Len(rec.calls)

\* C1: a dispatch in which the call failed for every one of the N >= 1
\* distinct credentials of the pool has made exactly N calls, the i-th with
\* the i-th credential of the shuffled pool (none retried, none skipped),
\* and ended with the error 'All tokens failed'.
C1_RotationExhaustion ==
    \A r \in Reqs :
       Exhausted(rq[r]) =>
          LET rec == rq[r]
              N == Len(rec.tokens)
          IN /\ N >= 1
             /\ Elements(rec.tokens) \in
                   { Elements(getAllTokens(<< >>)),
                     Elements(getAllTokens(OrEmptyArray(kv.tokens).v)) }
             /\ \A i, j \in 1..N : rec.tokens[i] = rec.tokens[j] => i = j
             /\ Len(rec.calls) = N
             /\ \A i \in 1..N : rec.calls[i].token = rec.tokens[i] /\ ~rec.calls[i].ok
             /\ StartsWith(rec.error, "All tokens failed. Last error: ")

\* A pool of two credentials was exhausted and the request acknowledged.
C1_Witness ==
    \E r \in Reqs :
       /\ Exhausted(rq[r]) /\ rq[r].pc = "done"
       /\ Len(rq[r].tokens) = 2 /\ Len(rq[r].calls) = 2

\* The payload passes the validation: it is neither a rejected call, nor
\* falsy, nor an object with an 'error' field.
PassesValidation(result) ==
    result.t # "throw" /\ ~IsFalsy(result) /\ ~result.error

UsageLimitReply ==
    Msg(<< Run("You have reached your ", 1), Run("usage limit", 1) >>)

C3_FirstSuccessWins ==
    \A r \in Reqs :
       LET rec == rq[r]
       IN /\ rec.pc = "d_call" =>
                /\ \A i \in 1..Len(rec.calls) :
                      ~rec.calls[i].ok /\ rec.calls[i].token = rec.tokens[i]
                /\ rec.idx = Len(rec.calls) + 1
          /\ \A k \in 1..Len(rec.accepted) :
                /\ rec.accepted[k].calls = rec.accepted[k].at
                /\ rec.accepted[k].at <= rec.accepted[k].n
          /\ rec.lastOk = "accepted" => rec.pc # "d_call" /\ ~Exhausted(rec)

\* A dispatch returned at a credential that was not the last of the pool.
C3_Witness ==
    \E r \in Reqs : \E k \in 1..Len(rq[r].accepted) :
       rq[r].accepted[k].at < rq[r].accepted[k].n

\* C4: a null payload and an object with an 'error' field fail their
\* credential only: the call is judged a failure, nothing is returned from
\* it, and the loop stands at the next credential or, after the last one,
\* the dispatch ends with 'All tokens failed'.
C4_HardValidation ==
    \A r \in Reqs :
       LET rec == rq[r]
           result == rec.lastResult
       IN (rec.lastOk # "none" /\ (result.t = "null" \/ result.error)) =>
             /\ rec.lastOk = "failed"
             /\ IF Position(rec) < Len(rec.tokens)
                THEN rec.pc = "d_call" /\ rec.idx = Position(rec) + 1 /\ ~rec.thrown
                ELSE /\ Exhausted(rec)
                     /\ StartsWith(rec.error, "All tokens failed. Last error: ")

\* After a null payload, and after an error object, the loop stands at the
\* second credential.
C4_Witness ==
    \E r \in Reqs :
       /\ rq[r].pc = "d_call" /\ rq[r].idx = 2 /\ rq[r].lastOk = "failed"
       /\ rq[r].lastResult \in {NullPayload, ErrorObject(Str("{json}"))}

\* C6: the error of an exhausted dispatch is 'All tokens failed. Last
\* error: ' followed by the error of the call made last, which is the call
\* with the last credential of the shuffled order.
C6_LastErrorReported ==
    \A r \in Reqs :
       Exhausted(rq[r]) =>
          LET rec == rq[r]
              N == Len(rec.tokens)
              result == rec.lastResult
              message ==
                 IF result.t = "throw" THEN result.emsg
                 ELSE IF IsFalsy(result) THEN Str("Empty response")
                 ELSE IF result.error THEN result.json
                 ELSE StrCat(Str("Quota exceeded: "), StrTrim(ExtractText(result)))
          IN /\ Position(rec) = N
             /\ rec.calls[N].token = rec.tokens[N]
             /\ rec.error = StrCat(Str("All tokens failed. Last error: "), message)

\* A pool of two was exhausted and the call with the second credential
\* returned null.
C6_Witness ==
    \E r \in Reqs :
       /\ Exhausted(rq[r]) /\ Len(rq[r].tokens) = 2
       /\ rq[r].lastResult = NullPayload
       /\ rq[r].lastError = Str("Empty response")
       /\ rq[r].nCalls = 2

(***************************************************************************)
(* Properties of the chat flow                                             *)
(***************************************************************************)

\* C5: an execution whose chat flow threw (the credentials exhausted, or
\* any other exception inside the try block) has, when it acknowledges,
\* handed the transport an error message for the conversation that
\* contains the message of the error.
C5_FailureNeverSilent ==
    \A r \in Reqs :
       LET rec == rq[r]
       IN (rec.thrown /\ rec.acked) =>
             \E i \in 1..Len(rec.sent) :
                /\ rec.sent[i].kind = "error"
                /\ rec.sent[i].text = StrCat(Str("!! Error: "), rec.error)

RECURSIVE Displayed(_)
\* The concatenation of the reply chunks handed to the transport.
Displayed(sent) ==
    IF sent = << >> THEN << >>
    ELSE StrCat(Displayed(SubSeq(sent, 1, Len(sent) - 1)),
                IF sent[Len(sent)].kind = "reply" THEN sent[Len(sent)].text
                ELSE << >>)

\* C8: once the exchange is written, the stored assistant message is the
\* displayed text followed by the hidden suffix; the suffix is non-empty
\* (the stored text strictly longer than the displayed one) exactly for a
\* search route whose search returned a block, and empty for a direct route
\* or a null search; every chunk sent is a piece of the displayed text and
\* holds no part of the suffix, and the chunks together are the displayed
\* text.
C8_HiddenContent ==
    \A r \in Reqs :
       LET rec == rq[r]
           stored == kv.hist[rec.chatId].v
           last == stored[Len(stored)]
       IN rec.persisted =>
             /\ last.role = "assistant"
             /\ last.content = StrCat(rec.cleanReply, rec.hiddenSearchData)
             /\ IF rec.route = "search" /\ ~rec.searchResults.null
                THEN /\ rec.hiddenSearchData # << >>
                     /\ StartsWith(rec.hiddenSearchData,
                                   "NLNL:::SEARCH_CONTEXT:::NLQuery: ")
                     /\ StrLen(rec.cleanReply) < StrLen(last.content)
                ELSE /\ rec.hiddenSearchData = << >>
                     /\ last.content = rec.cleanReply
             /\ \A i \in 1..Len(rec.sent) :
                   rec.sent[i].kind = "reply" =>
                      /\ \E k \in 0..(StrLen(rec.cleanReply) \div 4000) :
                            rec.sent[i].text =
                               Substring(rec.cleanReply, 4000 * k, 4000 * k + 4000)
                      /\ ~Includes(rec.sent[i].text, "NLNL:::SEARCH_CONTEXT:::NLQuery: ")
                      /\ ~Includes(rec.sent[i].text, "NL:::END_SEARCH_CONTEXT:::")
                      /\ ~Includes(rec.sent[i].text, "Tavily AI Summary: ")
             /\ (rec.acked /\ ~rec.thrown) => Displayed(rec.sent) = rec.cleanReply

\* A search with results was answered, stored with its suffix and sent.
C8_Witness ==
    \E r \in Reqs :
       /\ rq[r].persisted /\ rq[r].acked /\ ~rq[r].thrown
       /\ rq[r].route = "search" /\ ~rq[r].searchResults.null
       /\ rq[r].hiddenSearchData # << >>
       /\ Len(rq[r].sent) >= 1 /\ rq[r].sent[1].kind = "reply"

\* C10: when the read of the history key gave no array (the key absent, or
\* any other value), the chat flow goes on with the history [user message]
\* and what it writes is an array; the value never makes the flow throw.
C10_CorruptRecordTolerated ==
    \A r \in Reqs :
       LET rec == rq[r]
       IN (rec.loaded /\ rec.before.k # "array") =>
             /\ rec.history # << >>
             /\ rec.history[1] = Message("user", rec.userMessage)
             /\ rec.error # Str("history.push is not a function")
             /\ rec.persisted => kv.hist[rec.chatId].k = "array"

\* C7: a stored history never holds more than 20 messages; once an exchange
\* is written, the stored history is the last min(20, n + 2) elements of
\* the history read (n elements) followed by the user message and the
\* assistant message, in that order; after /clear it is empty.
C7_HistoryBounding ==
    /\ \A c \in Chats : kv.hist[c].k = "array" => Len(kv.hist[c].v) <= 20
    /\ \A r \in Reqs :
          LET rec == rq[r]
              prev == IF rec.before.k = "array" THEN rec.before.v ELSE << >>
              all == prev \o << Message("user", rec.userMessage),
                                Message("assistant",
                                        StrCat(rec.cleanReply, rec.hiddenSearchData)) >>
              keep == IF Len(prev) + 2 < 20 THEN Len(prev) + 2 ELSE 20
          IN /\ rec.persisted =>
                   /\ kv.hist[rec.chatId].k = "array"
                   /\ kv.hist[rec.chatId].v = SubSeq(all, Len(all) - keep + 1, Len(all))
             /\ rec.pc = "clear_send" => kv.hist[rec.chatId] = Arr(<< >>)

\* An exchange was written on top of a full history: the two oldest
\* messages were dropped, the rest moved up in order.
C7_Witness ==
    \E r \in Reqs :
       LET rec == rq[r]
       IN /\ rec.persisted /\ rec.before.k = "array" /\ Len(rec.before.v) = 20
          /\ Len(kv.hist[rec.chatId].v) = 20
          /\ kv.hist[rec.chatId].v[1] = rec.before.v[3]
          /\ kv.hist[rec.chatId].v[1] # rec.before.v[1]
          /\ kv.hist[rec.chatId].v[19] = Message("user", rec.userMessage)

\* The response is routing output: after the fences are stripped it parses
\* to a JSON object with an action, or it is a 'SEARCH: <query>' line.
ValidRouting(response) ==
    \/ StartsWith(StrTrim(response), "SEARCH:")
    \/ LET parsed == JsonParse(StripFences(response))
       IN parsed.k = "object" /\ parsed.action # ""

\* The classifier dispatch of the execution returned a response.
ClassifierResponded(rec) ==
    \E k \in 1..Len(rec.accepted) : rec.accepted[k].phase = "router"

\* C9: when the classifier's response is not routing output, the intent is
\* DIRECT-like (anything but SEARCH), the request goes on to the answering
\* dispatch with the route "direct", and no error raised by the
\* classification reaches the handler's catch.
C9_RouterFallback ==
    \A r \in Reqs :
       LET rec == rq[r]
       IN (ClassifierResponded(rec) /\ ~ValidRouting(rec.routerResponse)) =>
             /\ rec.intent.action # "SEARCH"
             /\ rec.error # Str("Cannot read properties of null (reading 'action')")
             /\ (rec.pc # "i_pref" /\ rec.error # KvError) => rec.route = "direct"

(***************************************************************************)
(* Properties of the search step                                           *)
(***************************************************************************)

\* The answering dispatch of the execution returned a text.
Answered(rec) ==
    \E k \in 1..Len(rec.accepted) : rec.accepted[k].phase = "answer"

\* C11: after a search that returned null (no key, a non-2xx status or a
\* thrown error) the chat flow is in its answering dispatch or past it, with
\* an empty suffix; when that dispatch returned, the reply is formatted and
\* written, and an execution that ends without another failure has stored
\* the exchange and sent the whole reply and no error message; an error
\* that does occur is one of the dispatcher, the store or the transport.
C11_SearchFailureNotFatal ==
    \A r \in Reqs :
       LET rec == rq[r]
       IN (rec.nSearch > 0 /\ rec.searchResults.null) =>
             /\ rec.phase = "answer" /\ rec.route = "search"
             /\ rec.hiddenSearchData = << >>
             /\ rec.pc \in {"d_tokens", "d_call", "persist", "send", "done", "catch"}
             /\ Answered(rec) =>
                   /\ rec.pc \in {"persist", "send", "done", "catch"}
                   /\ rec.cleanReply = Format(rec.finalResponse)
                   /\ ~rec.thrown => (rec.pc = "persist" \/ rec.persisted)
                   /\ (rec.acked /\ ~rec.thrown) =>
                         /\ Displayed(rec.sent) = rec.cleanReply
                         /\ \A i \in 1..Len(rec.sent) : rec.sent[i].kind = "reply"
             /\ rec.thrown =>
                   \/ StartsWith(rec.error, "All tokens failed. Last error: ")
                   \/ rec.error = KvError
                   \/ rec.error \in TransportErrors

\* A search failed with a non-2xx status, the answer was stored and sent.
C11_Witness ==
    \E r \in Reqs :
       /\ rq[r].nSearch = 1 /\ rq[r].searchResults.null
       /\ rq[r].search.keys # << >> /\ rq[r].search.health["k1"] = "status"
       /\ rq[r].acked /\ ~rq[r].thrown /\ rq[r].persisted
       /\ Len(rq[r].sent) >= 1 /\ rq[r].sent[1].kind = "reply"

\* C12: a search tries the configured keys one after another: every key
\* tried before the last one failed, no key is tried twice, the block
\* returned is that of the first key that succeeds, and the result is null
\* only if no key is configured or every configured key failed.
C12_SearchKeyRotation ==
    \A r \in Reqs :
       LET rec == rq[r]
           keys == rec.search.keys
           tried == rec.search.tried
           failed(k) == rec.search.health[k] # "ok"
       IN rec.nSearch > 0 =>
             /\ \A i, j \in 1..Len(tried) : tried[i] = tried[j] => i = j
             /\ \A i \in 1..Len(tried) :
                   /\ \E j \in 1..Len(keys) : keys[j] = tried[i]
                   /\ i < Len(tried) => failed(tried[i])
             /\ rec.searchResults.null <=>
                   (keys = << >> \/ \A j \in 1..Len(keys) : failed(keys[j]))
             /\ ~rec.searchResults.null =>
                   /\ tried # << >> /\ ~failed(tried[Len(tried)])
                   /\ rec.searchResults.text = SearchBlock

(***************************************************************************)
(* Properties of the credential pool                                       *)
(***************************************************************************)

NoRepeat(list) == \A i, j \in 1..Len(list) : list[i] = list[j] => i = j

\* The list persisted under 'extra_tokens' as getAllTokens takes it: a
\* missing, falsy or non-array value counts as the empty list.
PersistedTokens ==
    LET value == OrEmptyArray(kv.tokens)
    IN IF value.k = "array" THEN value.v ELSE << >>

\* C13: whenever getAllTokens has run, the list it combined holds no value
\* twice and holds exactly the values of the static configuration and of
\* the dynamic list it read, which is the persisted list when the read
\* succeeded (and empty when it failed); it throws when that list is empty
\* and returns it otherwise.
C13_PoolDeduplication ==
    \A r \in Reqs :
       LET rec == rq[r]
           pool == rec.pool
       IN pool.k # "none" =>
             /\ NoRepeat(pool.combined)
             /\ Elements(pool.combined) =
                   Elements(pool.staticTokens) \cup Elements(pool.dynamicTokens)
             /\ pool.dynamicTokens = IF pool.k = "read" THEN PersistedTokens ELSE << >>
             /\ pool.combined = << >> =>
                   /\ rec.thrown
                   /\ rec.error = Str("No PUTER_AUTH_TOKEN found in Env or DB.")
             /\ (pool.combined # << >> /\ rec.pc = "tok_added") =>
                   rec.total = Cardinality(Elements(pool.staticTokens)
                                              \cup Elements(PersistedTokens))
                   \/ pool.k = "failed"

\* getAllTokens ran with a static configuration that lists a value twice
\* and a persisted list that holds that value too.
C13_Witness ==
    \E r \in Reqs :
       /\ rq[r].pool.k = "read"
       /\ rq[r].pool.staticTokens = << Tok("S"), Tok("T"), Tok("S") >>
       /\ rq[r].pool.dynamicTokens = << Tok("A"), Tok("S") >>
       /\ rq[r].pool.combined = << Tok("S"), Tok("T"), Tok("A") >>
       /\ rq[r].total = 3

\* The token injection of execution r has ended.
TokenHandled(rec) ==
    /\ IsToken(rec.userMessage) /\ IsAllowed(rec.chatId)
    /\ rec.pc \in {"done", "crashed"}

\* C14: a handled registration made while the persisted list was without
\* the credential has persisted that list with the credential appended, or has
\* failed, left the stored value as it was and sent the failure message;
\* one handled while the list held the credential has left the stored value
\* as it was and sent the duplicate notice first, or the failure message
\* when the read failed; and the persisted list never holds a value twice.
C14_CredentialAdd ==
    /\ NoRepeat(PersistedTokens)
    /\ \A r \in Reqs :
          LET rec == rq[r]
              before == OrEmptyArray(rec.tokBefore)
              failed == /\ rec.thrown /\ Len(rec.sent) >= 1
                        /\ rec.sent[Len(rec.sent)].kind = "error"
          IN (TokenHandled(rec) /\ before.k = "array") =>
                IF rec.userMessage \in Elements(before.v)
                THEN /\ kv.tokens = rec.tokBefore
                     /\ failed \/ (rec.sent # << >> /\ rec.sent[1].kind = "duplicate")
                ELSE \/ /\ kv.tokens = Arr(Append(before.v, rec.userMessage))
                        /\ rec.thrown \/ (rec.sent # << >> /\ rec.sent[1].kind = "added")
                     \/ /\ kv.tokens = rec.tokBefore
                        /\ failed

\* A second credential was appended and the new total reported; and a
\* credential that was already there was reported as a duplicate.
C14_Witness ==
    \E r \in Reqs :
       /\ TokenHandled(rq[r]) /\ rq[r].acked /\ ~rq[r].thrown
       /\ rq[r].tokBefore = Arr(<< Tok("S") >>)
       /\ kv.tokens = Arr(<< Tok("S"), Tok("A") >>)
       /\ rq[r].sent = << Sent("added", Str("added"), TRUE, TRUE) >>

C14_WitnessDuplicate ==
    \E r \in Reqs :
       /\ TokenHandled(rq[r]) /\ rq[r].acked
       /\ rq[r].tokBefore = Arr(<< Tok("A"), Tok("S") >>)
       /\ rq[r].userMessage = Tok("S")
       /\ kv.tokens = rq[r].tokBefore
       /\ rq[r].sent = << Sent("duplicate", Str("already"), FALSE, TRUE) >>

\* The persisted list that a /cleartokens command found held a credential
\* of the static configuration `staticTokens`.
ClearedStatic(rec, staticTokens) ==
    /\ rec.userMessage = ClearTokensCmd /\ IsAllowed(rec.chatId)
    /\ rec.pc \in {"ct_send", "done"}
    /\ rec.tokBefore.k = "array"
    /\ Elements(rec.tokBefore.v) \cap Elements(staticTokens) # {}

\* C15: whatever add and /cleartokens commands were handled, getAllTokens
\* still returns every credential of the static configuration, whether or
\* not its read of the persisted list succeeds; and a /cleartokens command
\* that found a static credential in the list it removes has reported an
\* error by the time it is acknowledged.
C15_StaticNeverRemovable ==
    \A staticTokens \in StaticConfigs :
       /\ \A dynamicTokens \in {PersistedTokens, << >>} :
             Elements(staticTokens) \subseteq
                Elements(Combined(staticTokens, dynamicTokens))
       /\ \A r \in Reqs :
             (ClearedStatic(rq[r], staticTokens) /\ rq[r].acked) =>
                \E i \in 1..Len(rq[r].sent) : rq[r].sent[i].kind = "error"

\* The first half of C15 on its own.
StaticRetained ==
    \A staticTokens \in StaticConfigs :
       \A dynamicTokens \in {PersistedTokens, << >>} :
          Elements(staticTokens) \subseteq
             Elements(Combined(staticTokens, dynamicTokens))

(***************************************************************************)
(* Properties of the send loop                                             *)
(***************************************************************************)

\* The execution wrote the exchange and ended without an error.
Delivered(rec) == rec.acked /\ rec.persisted /\ ~rec.thrown

\* C16: a reply that was delivered and is no longer than MAX_CHUNK was sent
\* as exactly one message, equal to the reply; a longer one was sent as
\* chunks whose concatenation in sending order is the reply.
C16_ChunkRoundTrip ==
    \A r \in Reqs :
       LET rec == rq[r]
       IN Delivered(rec) =>
             IF StrLen(rec.cleanReply) <= MAX_CHUNK
             THEN /\ Len(rec.sent) = 1
                  /\ rec.sent[1].kind = "reply"
                  /\ rec.sent[1].text = rec.cleanReply
             ELSE /\ Len(rec.sent) > 1
                  /\ Displayed(rec.sent) = rec.cleanReply

\* The round trip of C16 for the replies that are not empty, and what
\* happens to an empty one.
NonEmptyRoundTrip ==
    \A r \in Reqs :
       LET rec == rq[r]
       IN Delivered(rec) =>
             /\ Displayed(rec.sent) = rec.cleanReply
             /\ \A i \in 1..Len(rec.sent) :
                   rec.sent[i].kind = "reply" /\ rec.sent[i].text # << >>
             /\ Len(rec.sent) = (StrLen(rec.cleanReply) + MAX_CHUNK - 1) \div MAX_CHUNK

\* The text that was still to be sent when the k-th message was sent.
Remaining(rec, k) ==
    StrDrop(rec.cleanReply, StrLen(Displayed(SubSeq(rec.sent, 1, k - 1))))

EndsLine(t) == t # << >> /\ t[Len(t)].w = "NL"

\* C17: a chunk that is sent while more than MAX_CHUNK characters remain
\* ends at a line break when the first MAX_CHUNK remaining characters hold
\* one, and is the first MAX_CHUNK remaining characters when they hold none.
C17_ChunkSplitPoints ==
    \A r \in Reqs :
       LET rec == rq[r]
       IN \A k \in 1..Len(rec.sent) :
             LET remaining == Remaining(rec, k)
                 window == StrTake(remaining, MAX_CHUNK)
                 chunk == rec.sent[k].text
             IN (rec.sent[k].kind = "reply" /\ StrLen(remaining) > MAX_CHUNK) =>
                   /\ StrLen(chunk) <= MAX_CHUNK
                   /\ IF Includes(window, "NL")
                      THEN EndsLine(chunk) \/ StartsWith(StrDrop(remaining, StrLen(chunk)), "NL")
                      ELSE chunk = window

\* The hard cut of C17 on its own: a chunk sent while more than MAX_CHUNK
\* characters remain, none of the first MAX_CHUNK a line break, is those
\* MAX_CHUNK characters.
HardCut ==
    \A r \in Reqs :
       LET rec == rq[r]
       IN \A k \in 1..Len(rec.sent) :
             LET remaining == Remaining(rec, k)
                 window == StrTake(remaining, MAX_CHUNK)
             IN (/\ rec.sent[k].kind = "reply" /\ StrLen(remaining) > MAX_CHUNK
                 /\ ~Includes(window, "NL")) => rec.sent[k].text = window

\* C18: every chunk is sent with markup; a chunk whose send was rejected is
\* followed by the same chunk as plain text and by nothing else in its
\* place, and an execution that wrote the exchange and is acknowledged has
\* handed every chunk of the reply to the transport, each delivered once.
C18_PerChunkFallback ==
    \A r \in Reqs :
       LET rec == rq[r]
           sent == rec.sent
           isResend(i) == i > 1 /\ ~sent[i - 1].ok /\ sent[i - 1].kind = "reply"
           accepted == { i \in 1..Len(sent) : sent[i].kind = "reply" /\ sent[i].ok }
           Text[i \in 0..Len(sent)] ==
               IF i = 0 THEN << >>
               ELSE IF i \in accepted THEN StrCat(Text[i - 1], sent[i].text)
               ELSE Text[i - 1]
       IN /\ \A i \in 1..Len(sent) :
                (sent[i].kind = "reply" /\ ~isResend(i)) => sent[i].markdown
          /\ (rec.acked /\ rec.persisted) =>
                /\ \A i \in 1..Len(sent) :
                      (sent[i].kind = "reply" /\ sent[i].markdown /\ ~sent[i].ok) =>
                         /\ i < Len(sent)
                         /\ sent[i + 1].kind = "reply"
                         /\ sent[i + 1].text = sent[i].text
                         /\ ~sent[i + 1].markdown
                /\ (\A i \in 1..Len(sent) : sent[i].kind = "reply" /\ ~sent[i].markdown
                                              => sent[i].ok) =>
                      Text[Len(sent)] = rec.cleanReply

(***************************************************************************)
(* Properties of the handler as a whole                                    *)
(***************************************************************************)

\* C19: no execution ends with an uncaught exception, and an execution that
\* has ended has returned its acknowledgment.
C19_AlwaysAcknowledge ==
    \A r \in Reqs :
       /\ rq[r].pc # "crashed"
       /\ rq[r].pc = "done" => rq[r].acked

\* C20: an execution of /clear makes no provider call and no search call;
\* once its kv.set has returned, the stored history of its conversation is
\* the empty list; and the next execution, when it is for that conversation
\* and has read the history, has read the empty list and holds the user's
\* message alone.
C20_ClearCommand ==
    \A r \in Reqs :
       LET rec == rq[r]
       IN /\ rec.userMessage = ClearCmd =>
                rec.nCalls = 0 /\ rec.calls = << >> /\ rec.nSearch = 0
          /\ Cleared(rec) # 0 => kv.hist[rec.chatId] = Arr(<< >>)
          /\ (rec.chatId # 0 /\ rec.prevCleared = rec.chatId /\ rec.loaded) =>
                /\ rec.before = Arr(<< >>)
                /\ rec.pc = "pref" =>
                      rec.history = << Message("user", rec.userMessage) >>

\* After an exchange was stored, /clear was handled and the next message
\* has read the history.
C20_Witness ==
    \E r \in Reqs :
       /\ seq >= 1
       /\ rq[r].prevCleared = rq[r].chatId /\ rq[r].chatId = 1
       /\ rq[r].loaded /\ rq[r].pc = "pref"
       /\ rq[r].before = Arr(<< >>)

(***************************************************************************)
(* Properties of the routing                                               *)
(***************************************************************************)

\* The execution has made a completion call for the routing decision.
RouterCalled(rec) ==
    \/ rec.phase = "router" /\ rec.calls # << >>
    \/ \E k \in 1..Len(rec.accepted) : rec.accepted[k].phase = "router"
    \/ rec.phase = "router" /\ rec.thrown /\ rec.nCalls > 0

\* C21: an execution whose message the deterministic match decides (the
\* lookup prefix '/s ') makes no completion call for the routing decision.
C21_RouterFastPath ==
    \A r \in Reqs : IsLookup(rq[r].userMessage) => ~RouterCalled(rq[r])

(***************************************************************************)
(* Properties of concurrent executions                                     *)
(***************************************************************************)

\* Executions r1 and r2 have both written their exchange for the same
\* conversation after reading the same stored history.
Raced(r1, r2) ==
    /\ r1 # r2
    /\ rq[r1].chatId = rq[r2].chatId
    /\ rq[r1].loaded /\ rq[r2].loaded
    /\ rq[r1].before = rq[r2].before
    /\ rq[r1].persisted /\ rq[r2].persisted

\* C22: when two executions have written their exchange for the same
\* conversation after reading the same stored history, the stored history
\* is the list that one of them wrote and holds neither the user message
\* nor the assistant message of the other.
C22_LastWriteWins ==
    \A r1, r2 \in Reqs :
       Raced(r1, r2) =>
          LET stored == kv.hist[rq[r1].chatId]
              lost(r) == LET n == Len(rq[r].history)
                         IN /\ rq[r].history[n - 1] \notin Elements(stored.v)
                            /\ rq[r].history[n - 1] = Message("user", rq[r].userMessage)
          IN /\ stored \in { Arr(rq[r1].history), Arr(rq[r2].history) }
             /\ stored = Arr(rq[r1].history) => lost(r2)
             /\ stored = Arr(rq[r2].history) => lost(r1)
             /\ Len(stored.v) = Len(OrEmptyArray(rq[r1].before).v) + 2

\* Both executions read the empty history, execution 1 wrote first and
\* execution 2 overwrote it; both were acknowledged after sending a reply.
C22_Witness ==
    /\ Raced(1, 2)
    /\ kv.hist[1] = Arr(rq[2].history)
    /\ rq[1].acked /\ rq[2].acked /\ ~rq[1].thrown /\ ~rq[2].thrown
    /\ Message("user", UserText(1)) \notin Elements(kv.hist[1].v)

(***************************************************************************)
(* Properties of error propagation                                         *)
(***************************************************************************)

\* The transport rejected the send of a chunk of the reply.
ChunkRejected(rec) ==
    \E j \in 1..Len(rec.sent) : rec.sent[j].kind = "reply" /\ ~rec.sent[j].ok

\* The chat flow threw for a reason other than a rejected chunk: every
\* credential failed, or a call of the store or the transport failed.
TotalFailure(rec) == rec.thrown /\ ~ChunkRejected(rec)

\* C23: an error message is delivered to the user only on total failure:
\* an execution in which some credentials failed, the search failed, the
\* router's output named no search, or the send of a chunk was rejected
\* sends no error message.
C23_PropagationPolicy ==
    \A r \in Reqs :
       LET rec == rq[r]
       IN (\E i \in 1..Len(rec.sent) : rec.sent[i].kind = "error" /\ rec.sent[i].ok) =>
             TotalFailure(rec)

\* C23 without its last case: an error message is sent only by an
\* execution whose chat flow threw.
ErrorOnlyWhenThrown ==
    \A r \in Reqs :
       (\E i \in 1..Len(rq[r].sent) : rq[r].sent[i].kind = "error" /\ rq[r].sent[i].ok)
          => rq[r].thrown

(***************************************************************************)
(* Properties of the pruning pass                                          *)
(***************************************************************************)

\* C24: a pruning pass drops from the list it keeps exactly the credentials
\* whose probe reported zero remaining quota; a credential whose probe
\* threw or returned nothing is kept; and once the pass has written, the
\* persisted list is the list read without the credentials whose probe
\* reported zero, in the same order.
C24_PruneFailOpen ==
    \A r \in Reqs :
       LET rec == rq[r]
           kept == { i \in 1..Len(rec.probed) : rec.probed[i].outcome # "zero" }
           Kept[i \in 0..Len(rec.probed)] ==
               IF i = 0 THEN << >>
               ELSE IF i \in kept THEN Append(Kept[i - 1], rec.probed[i].token)
               ELSE Kept[i - 1]
       IN rec.probed # << >> =>
             /\ \A i \in 1..Len(rec.probed) : rec.probed[i].token = rec.tokens[i]
             /\ rec.currentExtras = Kept[Len(rec.probed)]
             /\ \A i \in 1..Len(rec.probed) :
                   rec.probed[i].outcome \in {"throw", "nothing"} =>
                      rec.probed[i].token \in Elements(rec.currentExtras)
             /\ (rec.pc = "pruned" /\ ~rec.thrown) =>
                   /\ Len(rec.probed) = Len(rec.tokens)
                   /\ kv.tokens = Arr(rec.currentExtras)
             /\ (rec.pc # "pruned" \/ rec.thrown) => kv.tokens = rec.tokBefore

\* A pass over two credentials has written: the probe of the first threw
\* and it is still persisted, the second reported zero and is gone.
C24_Witness ==
    \E r \in Reqs :
       /\ rq[r].pc = "pruned" /\ ~rq[r].thrown
       /\ rq[r].tokBefore = Arr(<< Tok("A"), Tok("S") >>)
       /\ rq[r].probed = << [token |-> Tok("A"), outcome |-> "throw"],
                            [token |-> Tok("S"), outcome |-> "zero"] >>
       /\ kv.tokens = Arr(<< Tok("A") >>)

(***************************************************************************)
(* Properties of the order of the chat flow                                *)
(***************************************************************************)

\* The routing dispatch of the execution returned.
Routed(rec) ==
    /\ rec.route \in {"direct", "search"}
    /\ \E k \in 1..Len(rec.accepted) : rec.accepted[k].phase = "router"

\* C25: a chunk of the reply is handed to the transport only after the
\* write of the updated history has completed, the stored history then
\* being the one that ends with this exchange; the answering dispatch
\* starts only after the routing dispatch has returned, and on the search
\* route only after the search; and the write happens only after the
\* answering dispatch has returned.
C25_PersistBeforeEmit ==
    \A r \in Reqs :
       LET rec == rq[r]
       IN /\ (rec.pc = "send" \/ \E i \in 1..Len(rec.sent) : rec.sent[i].kind = "reply") =>
                /\ rec.persisted
                /\ kv.hist[rec.chatId] = Arr(rec.history)
                /\ rec.history[Len(rec.history)] =
                      Message("assistant", DbContent(rec.cleanReply, rec.hiddenSearchData))
          /\ rec.phase = "answer" =>
                /\ Routed(rec)
                /\ rec.route = "search" => rec.nSearch = 1
          /\ (rec.pc = "persist" \/ rec.persisted) => Routed(rec) /\ Answered(rec)

\* The first chunk of a reply of 4001 characters has been sent and the
\* second is due: the exchange is stored.
C25_Witness ==
    \E r \in Reqs :
       /\ rq[r].pc = "send" /\ rq[r].i = MAX_CHUNK
       /\ Len(rq[r].sent) = 1 /\ rq[r].sent[1].kind = "reply" /\ rq[r].sent[1].ok
       /\ rq[r].persisted /\ kv.hist[rq[r].chatId] = Arr(rq[r].history)

(***************************************************************************)
(* Properties of the rotation in time                                      *)
(***************************************************************************)

\* The completion calls the execution has started and not yet seen
\* complete.
Outstanding(rec) == rec.issued - Len(rec.calls)

\* C26: an execution has at most one completion call outstanding, and has
\* one exactly while it awaits puter.ai.chat; the k-th call of a dispatch
\* is made with the k-th credential of the shuffled pool, and every call
\* after which another was started has completed as a failure; while the
\* search or its typing indicator is awaited no completion call is
\* outstanding, and while a completion call is outstanding no search is.
C26_SequentialRotation ==
    \A r \in Reqs :
       LET rec == rq[r]
       IN /\ Outstanding(rec) \in {0, 1}
          /\ Outstanding(rec) = 1 <=> rec.pc = "d_call"
          /\ \A k \in 1..Len(rec.calls) :
                /\ rec.calls[k].token = rec.tokens[k]
                /\ k < rec.issued => ~rec.calls[k].ok
          /\ rec.pc = "d_call" => rec.issued = rec.idx
          /\ rec.pc \in {"s_typing", "search"} => rec.issued = 0 /\ rec.calls = << >>

\* The call for the second credential is outstanding, the call for the
\* first has completed as a failure.
C26_Witness ==
    \E r \in Reqs :
       /\ rq[r].pc = "d_call" /\ rq[r].issued = 2
       /\ Len(rq[r].calls) = 1 /\ ~rq[r].calls[1].ok
       /\ Len(rq[r].tokens) >= 2

\* An acknowledged execution is at rest: it stands after its last step, awaits
\* no network call and has no completion attempt in flight.
AtRest(rec) ==
    /\ rec.pc = "done"
    /\ Awaiting(rec.pc) = "none"
    /\ Outstanding(rec) = 0

\* C27 (no background work): when the handler has returned its
\* acknowledgment, every network call it started has completed (the execution
\* awaits nothing and no completion attempt is outstanding), and no call
\* starts afterwards: the only step an acknowledged execution takes is the
\* arrival of the next request, which leaves the store, the transport log and
\* the call counters untouched.
C27_NoBackgroundWork ==
    [][\A r \in Reqs :
          /\ rq'[r].acked => AtRest(rq'[r])
          /\ (rq[r].acked /\ rq'[r] # rq[r]) =>
                /\ kv' = kv
                /\ rq'[r].sent = << >>
                /\ rq'[r].nCalls = 0
                /\ rq'[r].nSearch = 0
                /\ rq'[r].calls = << >>]_vars

\* An acknowledged execution that called the store, the completion provider
\* (classification and answer), the search provider and the transport.
C27_Witness ==
    \E r \in Reqs :
       /\ rq[r].acked
       /\ rq[r].persisted
       /\ rq[r].nCalls >= 2
       /\ rq[r].nSearch >= 1
       /\ Len(rq[r].sent) >= 1

\* The request of an execution is a credential command (token registration
\* or /cleartokens); otherwise, past the whitelist, it is a chat message.
IsCredentialCommand(rec) == IsToken(rec.userMessage) \/ rec.userMessage = ClearTokensCmd

\* C28 (key isolation): every change of the store is made by the step of one
\* execution; a step for conversation A leaves the history and the model
\* preference of every other conversation as they were; the step of a chat
\* message changes nothing but the history of A (not the credential pool, no
\* model preference), and the step of a credential command changes no
\* history and no model preference.
C28_KeyIsolation ==
    [][kv' # kv =>
          \E r \in Reqs :
             LET rec == rq[r]
             IN /\ rq'[r] # rec
                /\ \A c \in Chats \ {rec.chatId} :
                      kv'.hist[c] = kv.hist[c] /\ kv'.model[c] = kv.model[c]
                /\ IF IsCredentialCommand(rec)
                   THEN kv'.hist = kv.hist /\ kv'.model = kv.model
                   ELSE /\ kv'.tokens = kv.tokens /\ kv'.model = kv.model
                        /\ kv'.hist[rec.chatId] # kv.hist[rec.chatId]]_vars

\* Both conversations hold a stored exchange of their own while a credential
\* is registered: conversation 1 holds the text of execution 1 and not that
\* of execution 2, conversation 3 the reverse.
C28_Witness ==
    /\ kv.hist[1].k = "array" /\ kv.hist[3].k = "array"
    /\ Message("user", UserText(1)) \in Elements(kv.hist[1].v)
    /\ Message("user", UserText(2)) \notin Elements(kv.hist[1].v)
    /\ Message("user", UserText(2)) \in Elements(kv.hist[3].v)
    /\ Message("user", UserText(1)) \notin Elements(kv.hist[3].v)
    /\ kv.tokens = Arr(<< Tok("A") >>)
    /\ kv.hist[2] = Absent

\* The messages of the stored conversation an execution read, in stored
\* order: those that precede the new message.
Preceding(rec) == IF rec.before.k = "array" THEN rec.before.v ELSE << >>

\* The classification call of an execution is awaited.
Classifying(rec) == rec.phase = "router" /\ rec.pc = "d_call"

\* C29 (classifier context): while the classification call is awaited, the
\* messages it was given after the system prompt are the j most recent
\* messages of the stored conversation, in stored order, followed by the new
\* message, for some j that is at least 3, or the whole stored conversation
\* when it has fewer than 3 messages.
C29_ClassifierContext ==
    \A r \in Reqs :
       LET rec == rq[r]
           stored == Preceding(rec)
           n == Len(stored)
           least == IF n < 3 THEN n ELSE 3
       IN Classifying(rec) =>
             \E j \in least..n :
                Tail(rec.routerMessages) =
                   SubSeq(stored, n - j + 1, n) \o << Message("user", rec.userMessage) >>

\* Number of positions of list that hold x.
Occurrences(list, x) == Cardinality({ i \in 1..Len(list) : list[i] = x })

\* a and b hold the same elements, each the same number of times.
IsPermutation(a, b) ==
    /\ Len(a) = Len(b)
    /\ \A x \in Elements(a) \cup Elements(b) : Occurrences(a, x) = Occurrences(b, x)

\* The pools getAllTokens can return in the current state: built from the
\* persisted list, or from the empty list when its read threw.
Pools == { getAllTokens(PersistedTokens), getAllTokens(<< >>) }

\* C30 (shuffle is a permutation): while a dispatch tries credentials, the
\* order it follows is a permutation of the pool getAllTokens returned (the
\* same credentials, each exactly once), the credentials tried so far are
\* the head of that order, and for every credential of a pool some draw of
\* the shuffle puts it first.
C30_ShufflePermutation ==
    /\ \A r \in Reqs :
          LET rec == rq[r]
          IN rec.pc = "d_call" =>
                /\ \E pool \in Pools : IsPermutation(rec.tokens, pool)
                /\ NoRepeat(rec.tokens)
                /\ \A k \in 1..Len(rec.calls) : rec.calls[k].token = rec.tokens[k]
    /\ \A pool \in Pools :
          \A k \in 1..Len(pool) :
             \E draw \in Draws(Len(pool)) : Shuffle(pool, draw)[1] = pool[k]

\* A dispatch over a pool of at least two credentials that tries the last
\* credential of the pool first.
C30_Witness ==
    \E r \in Reqs :
       LET rec == rq[r]
           pool == getAllTokens(PersistedTokens)
       IN /\ rec.pc = "d_call" /\ Len(pool) >= 2
          /\ IsPermutation(rec.tokens, pool)
          /\ rec.tokens[1] = pool[Len(pool)]
          /\ rec.tokens # pool

\* A dispatch over the same pool that tries its first credential first.
C30_WitnessFirst ==
    \E r \in Reqs :
       LET rec == rq[r]
           pool == getAllTokens(PersistedTokens)
       IN /\ rec.pc = "d_call" /\ Len(pool) >= 2
          /\ rec.tokens = pool

(***************************************************************************)
(* Properties of the text extraction                                       *)
(***************************************************************************)

\* The text of exactly the blocks whose type is textual, in order.
TextualOnly(blocks) == JoinTexts(SelectSeq(blocks, LAMBDA b : b.type = "text"))

\* The payload is one of the three shapes: a bare string, an object with a
\* string or a block list as message.content, a block list.
IsShaped(result) ==
    \/ result.t = "string"
    \/ result.t = "message" /\ result.ctype \in {"string", "array"}
    \/ result.t = "array"

\* The text the three shapes stand for.
Normalized(result) ==
    IF result.t = "string" THEN result.content
    ELSE IF result.t = "message" /\ result.ctype = "string" THEN result.content
    ELSE TextualOnly(result.blocks)

\* C31 (payload normalization): the text a dispatch returned for an
\* accepted payload of one of the three shapes is, up to the trim, the
\* string itself, message.content, or the concatenation in order of the
\* text of exactly the blocks of type text.
C31_PayloadNormalization ==
    \A r \in Reqs :
       LET rec == rq[r]
           result == rec.lastResult
       IN (rec.lastOk = "accepted" /\ IsShaped(result)) =>
             /\ (rec.pc = "d_tokens" /\ rec.phase = "answer") =>
                   rec.routerResponse = StrTrim(Normalized(result))
             /\ rec.pc \in {"persist", "send"} =>
                   rec.finalResponse = StrTrim(Normalized(result))

\* C32 (chunk size bound): every message handed to the transport for a
\* reply is non-empty and at most MAX_CHUNK characters long, whatever the
\* reply text, a reply with one line longer than the limit included.
C32_ChunkSizeBound ==
    \A r \in Reqs :
       \A j \in 1..Len(rq[r].sent) :
          rq[r].sent[j].kind = "reply" =>
             /\ StrLen(rq[r].sent[j].text) > 0
             /\ StrLen(rq[r].sent[j].text) <= 4000

\* The reply of 5512 characters whose second line has 4500 characters went
\* out in two chunks, the first of them full.
C32_Witness ==
    \E r \in Reqs :
       /\ rq[r].acked /\ ~rq[r].thrown
       /\ StrLen(rq[r].cleanReply) = 5512
       /\ Len(rq[r].sent) = 2
       /\ StrLen(rq[r].sent[1].text) = 4000
       /\ StrLen(rq[r].sent[2].text) = 1512

(***************************************************************************)
(* Properties of the transport calls                                       *)
(***************************************************************************)

\* The request of an execution is a chat message: none of the commands the
\* model handles.
IsChatMessage(rec) ==
    /\ ~IsToken(rec.userMessage)
    /\ rec.userMessage # ClearCmd
    /\ rec.userMessage # ClearTokensCmd

\* A rejected transport call left the handler as an uncaught exception: the
\* execution ended without acknowledgment at the typing indicator of a chat
\* message (nothing read, nothing sent yet) or at a send that was rejected.
TransportEscaped(rec) ==
    /\ rec.pc = "crashed"
    /\ \/ IsChatMessage(rec) /\ ~rec.loaded /\ rec.sent = << >>
       \/ rec.sent # << >> /\ ~rec.sent[Len(rec.sent)].ok

\* C33 (transport sends are fire-and-forget): no rejected call of the
\* transport (typing indicator, command confirmation, reply chunk, error
\* message) leaves the handler; in particular no chat message stays
\* unanswered because its typing indicator was rejected.
C33_TransportFireAndForget ==
    \A r \in Reqs : ~TransportEscaped(rq[r])

(***************************************************************************)
(* Properties of the model preference                                      *)
(***************************************************************************)

\* The model the stored preference of conversation c stands for.
Preferred(c) == IF kv.model[c].k = "absent" THEN DEFAULT_MODEL ELSE kv.model[c].v

\* The execution handles '/use <name>' and its kv.set has returned.
Switched(rec) ==
    /\ StartsWith(rec.userMessage, "/use") /\ newModel(rec.userMessage) # << >>
    /\ rec.pc = "use_send" \/ rec.sent # << >>

\* The execution handles /reset and its kv.del has returned.
Reverted(rec) ==
    /\ rec.userMessage = ResetCmd
    /\ rec.pc = "reset_send" \/ rec.sent # << >>

\* The model of every completion call of an execution: the default model
\* for routing, the model its conversation prefers for answering.
ModelsFollowPreference ==
    \A r \in Reqs :
       LET rec == rq[r]
       IN /\ Switched(rec) => kv.model[rec.chatId] = Pref(Spell(newModel(rec.userMessage)))
          /\ Reverted(rec) => kv.model[rec.chatId] = Absent
          /\ \A k \in 1..Len(rec.calls) :
                rec.calls[k].model = IF rec.phase = "router" THEN DEFAULT_MODEL
                                     ELSE Preferred(rec.chatId)
          /\ \A k \in 1..Len(rec.accepted) :
                rec.accepted[k].model = IF rec.accepted[k].phase = "router"
                                        THEN DEFAULT_MODEL
                                        ELSE Preferred(rec.chatId)

\* C34 (model preference): once '/use m' has been stored for a conversation
\* its preference is m, and once /reset has been stored it has none; every
\* answering call uses the model its own conversation prefers (the default
\* model without a preference) and every routing call the default model;
\* and the preference of a conversation changes only in the kv.set of a
\* /use or the kv.del of a /reset handled for that conversation.
C34_ModelPreference ==
    [][/\ ModelsFollowPreference'
       /\ \A c \in Chats :
             kv'.model[c] # kv.model[c] =>
                \E r \in Reqs :
                   rq[r].chatId = c /\ rq[r].pc \in {"use_set", "reset_del"}]_vars

\* Conversation 1 prefers gpt-4o and conversation 3 has no preference: an
\* execution for conversation 1 was routed with the default model and
\* answered after a search with gpt-4o.
C34_Witness ==
    /\ kv.model[1] = Pref("gpt-4o") /\ kv.model[3] = Absent
    /\ \E r \in Reqs :
          LET rec == rq[r]
          IN /\ rec.chatId = 1 /\ rec.acked /\ rec.nSearch = 1
             /\ Len(rec.accepted) = 2
             /\ rec.accepted[1].phase = "router" /\ rec.accepted[1].model = DEFAULT_MODEL
             /\ rec.accepted[2].phase = "answer" /\ rec.accepted[2].model = "gpt-4o"

\* With the same preferences an execution for conversation 3 was answered
\* with the default model.
C34_WitnessOther ==
    /\ kv.model[1] = Pref("gpt-4o") /\ kv.model[3] = Absent
    /\ \E r \in Reqs :
          LET rec == rq[r]
          IN /\ rec.chatId = 3 /\ rec.acked
             /\ Len(rec.accepted) = 2
             /\ rec.accepted[2].phase = "answer" /\ rec.accepted[2].model = DEFAULT_MODEL

\* Conversation 1 went back to the default model after a /reset: its
\* history holds an exchange, its preference is gone and the execution at
\* hand was answered with the default model.
C34_WitnessReset ==
    /\ kv.model[1] = Absent /\ kv.model[3] = Pref("gpt-4o")
    /\ \E r \in Reqs :
          LET rec == rq[r]
          IN /\ rec.chatId = 1 /\ rec.acked /\ Len(rec.accepted) = 2
             /\ rec.accepted[2].model = DEFAULT_MODEL

\* The chat flow of the execution failed before its store write: it threw
\* and wrote nothing.
FailedBeforeWrite(rec) == IsChatMessage(rec) /\ rec.thrown /\ ~rec.persisted

\* C35 (store unchanged on failure): a chat flow that failed before its
\* store write leaves the stored history as it read it; the only step of a
\* chat flow that changes the store is its successful kv.set, and what that
\* writes ends with the user message followed by the assistant reply.
C35_StoreUnchangedOnFailure ==
    [][\A r \in Reqs :
          LET old == rq[r]
              new == rq'[r]
          IN /\ (FailedBeforeWrite(new) /\ new.loaded) =>
                   kv'.hist[new.chatId] = new.before
             /\ (IsChatMessage(old) /\ old.pc # "idle" /\ kv' # kv) =>
                   /\ old.pc = "persist" /\ new.persisted /\ ~old.thrown
                   /\ LET stored == kv'.hist[old.chatId].v
                          n == Len(stored)
                      IN /\ n >= 2
                         /\ stored[n - 1] = Message("user", old.userMessage)
                         /\ stored[n].role = "assistant"]_vars

\* A chat flow that found a stored exchange and then failed in its
\* answering dispatch: the routing call was answered, every credential
\* failed for the answer, the error message went out and the stored history
\* is the exchange it read.
C35_Witness ==
    \E r \in Reqs :
       LET rec == rq[r]
       IN /\ FailedBeforeWrite(rec) /\ rec.acked /\ rec.loaded
          /\ rec.before.k = "array" /\ Len(rec.before.v) = 2
          /\ kv.hist[rec.chatId] = rec.before
          /\ Len(rec.accepted) = 1 /\ rec.accepted[1].phase = "router"
          /\ Exhausted(rec)

(***************************************************************************)
(* Properties of the stored messages                                       *)
(***************************************************************************)

\* The messages stored for the conversations.
StoredMessages ==
    UNION { Elements(kv.hist[c].v) : c \in { d \in Chats : kv.hist[d].k = "array" } }

\* The text holds nothing that the handler injects for the provider: no
\* search context, no system or router prompt.
FreeOfInjection(content) ==
    \A i \in 1..Len(content) :
       content[i].w \notin {"NLNL:::SEARCH_CONTEXT:::NLQuery: ",
                            "[SYSTEM DATA] Search Query: ", "No results found.",
                            "SYSTEM_PROMPT", "routerPrompt"}

\* C36 (stored roles): every stored message has the role user or assistant
\* and no stored user message holds injected text; the lists sent to the
\* provider begin with a system message (the router instruction, the system
\* prompt) and on the search route hold the search-context system message
\* before the user's message, while the history of the execution holds none
\* of them; and the user message an execution has stored is the text the
\* user sent.
C36_StoredRoles ==
    /\ \A msg \in StoredMessages :
          /\ msg.role \in {"user", "assistant"}
          /\ msg.role = "user" => FreeOfInjection(msg.content)
    /\ \A r \in Reqs :
          LET rec == rq[r]
              stored == kv.hist[rec.chatId].v
              sentList == rec.answerMessages
          IN /\ \A msg \in Elements(rec.history) : msg.role \in {"user", "assistant"}
             /\ rec.routerMessages # << >> => rec.routerMessages[1].role = "system"
             /\ sentList # << >> =>
                   /\ sentList[1] = SystemMessage
                   /\ sentList[Len(sentList)] = Message("user", rec.userMessage)
                   /\ rec.route = "search" =>
                         sentList[Len(sentList) - 1] =
                            ContextMsg(rec.searchQuery, rec.searchResults)
             /\ (IsChatMessage(rec) /\ rec.persisted) =>
                   /\ Len(stored) >= 2
                   /\ stored[Len(stored) - 1] = Message("user", rec.userMessage)
                   /\ stored[Len(stored)].role = "assistant"

\* An exchange answered from search results is stored: the provider was
\* sent the system prompt and the search context, the store holds the user
\* message and the assistant message.
C36_Witness ==
    \E r \in Reqs :
       LET rec == rq[r]
       IN /\ rec.persisted /\ rec.route = "search" /\ ~rec.searchResults.null
          /\ Len(rec.answerMessages) = 3
          /\ rec.answerMessages[2].role = "system"
          /\ kv.hist[rec.chatId].k = "array" /\ Len(kv.hist[rec.chatId].v) = 2
          /\ kv.hist[rec.chatId].v[1] = Message("user", rec.userMessage)
          /\ kv.hist[rec.chatId].v[2].role = "assistant"
          /\ ~FreeOfInjection(kv.hist[rec.chatId].v[2].content)

(***************************************************************************)
(* Properties of the whitelist gate                                        *)
(***************************************************************************)

\* The conversation ids the configuration names.
Members == { WHITELIST[i] : i \in 1..Len(WHITELIST) }

\* C37 (whitelist gate): an execution for a conversation that is no member
\* of the whitelist is acknowledged at once, having read and written no
\* store key, made no completion call, no search call and no send, and
\* nothing is ever stored for such a conversation; an execution that is past
\* the gate is for a member; and when the whitelist is unset or the empty
\* text, no conversation passes the gate.
C37_WhitelistGate ==
    /\ \A r \in Reqs :
          LET rec == rq[r]
          IN rec.pc # "idle" =>
                /\ rec.chatId \notin Members =>
                      /\ rec.pc = "done" /\ rec.acked
                      /\ ~rec.loaded /\ ~rec.persisted
                      /\ rec.nCalls = 0 /\ rec.calls = << >> /\ rec.tokens = << >>
                      /\ rec.nSearch = 0 /\ rec.sent = << >>
                /\ rec.pc # "done" => rec.chatId \in Members
    /\ \A c \in Chats \ Members : kv.hist[c] = Absent /\ kv.model[c] = Absent
    /\ \A c \in Chats :
          /\ ~PassesGate(SplitWhitelist(EnvUnset), c)
          /\ ~PassesGate(SplitWhitelist(EnvText(<< >>)), c)

\* A /clear of the stranger was turned away after an exchange of
\* conversation 1 had been stored: the exchange is still there.
C37_Witness ==
    \E r \in Reqs :
       /\ rq[r].chatId = 2 /\ rq[r].pc = "done" /\ rq[r].acked
       /\ rq[r].userMessage = ClearCmd
       /\ kv.hist[1].k = "array" /\ Len(kv.hist[1].v) = 2
       /\ kv.hist[2] = Absent

(***************************************************************************)
(* Properties of the provider load                                         *)
(***************************************************************************)

\* The completion calls an execution has made for routing and for
\* answering: those of the dispatches that returned, and those of the
\* dispatch that is running or that threw.
RoutingCalls(rec) ==
    IF Len(rec.accepted) >= 1 THEN rec.accepted[1].calls ELSE Len(rec.calls)

AnsweringCalls(rec) ==
    IF Len(rec.accepted) >= 2 THEN rec.accepted[2].calls
    ELSE IF Len(rec.accepted) = 1 THEN Len(rec.calls)
    ELSE 0

\* Number of credentials of the pool: the static ones and the persisted
\* ones, each once.
PoolSize == Len(Dedup(StaticTokens \o PersistedTokens))

\* C38 (bounded provider load): an execution has made at most N completion
\* calls for routing and at most N for answering, N being the size of the
\* pool, hence at most 2N in all; within a dispatch no credential is called
\* twice; and it has made at most one search call.
C38_BoundedProviderLoad ==
    \A r \in Reqs :
       LET rec == rq[r]
       IN /\ rec.nCalls = RoutingCalls(rec) + AnsweringCalls(rec)
          /\ RoutingCalls(rec) <= PoolSize
          /\ AnsweringCalls(rec) <= PoolSize
          /\ rec.nCalls <= 2 * PoolSize
          /\ \A j, k \in 1..Len(rec.calls) :
                rec.calls[j].token = rec.calls[k].token => j = k
          /\ rec.nSearch <= 1

\* The load at its bound with a pool of two credentials: two routing calls
\* (the second accepted), one search call and two answering calls that both
\* failed.
C38_Witness ==
    \E r \in Reqs :
       LET rec == rq[r]
       IN /\ PoolSize = 2 /\ rec.nCalls = 4 /\ rec.nSearch = 1
          /\ RoutingCalls(rec) = 2 /\ AnsweringCalls(rec) = 2
          /\ Exhausted(rec) /\ rec.acked

\* C39 (at least one user-visible outcome): an acknowledged execution of a
\* chat message that entered the chat flow has handed the transport at
\* least one text message, a reply chunk or an error message.
C39_VisibleOutcome ==
    \A r \in Reqs :
       LET rec == rq[r]
       IN (IsChatMessage(rec) /\ rec.chatId \in Members /\ rec.acked) =>
             \E i \in 1..Len(rec.sent) : rec.sent[i].kind \in {"reply", "error"}

(***************************************************************************)
(* Properties of concurrent registrations                                  *)
(***************************************************************************)

\* The execution has finished a registration that reported no failure: it
\* was acknowledged after the confirmation or the duplicate notice.
Registered(rec) ==
    /\ IsToken(rec.userMessage) /\ rec.pc = "done" /\ ~rec.thrown
    /\ \E i \in 1..Len(rec.sent) : rec.sent[i].kind \in {"added", "duplicate"}

\* C40 (concurrent credential registration): when two executions have
\* finished their registrations, both credentials are in the persisted
\* list if they differ, and the credential is in it exactly once if they
\* are the same.
C40_ConcurrentRegistration ==
    \A r1, r2 \in Reqs :
       (r1 # r2 /\ Registered(rq[r1]) /\ Registered(rq[r2])) =>
          IF rq[r1].userMessage # rq[r2].userMessage
          THEN /\ rq[r1].userMessage \in Elements(PersistedTokens)
               /\ rq[r2].userMessage \in Elements(PersistedTokens)
          ELSE Cardinality({ i \in 1..Len(PersistedTokens) :
                               PersistedTokens[i] = rq[r1].userMessage }) = 1

=============================================================================
